---- MODULE Spec2Model ----
(***************************************************************************)
(* ParameterPath-Optimizer: the blown-film rules engine.                   *)
(*                                                                         *)
(* The engine has two entry points, optimizeParameters (optimizer.ts) and  *)
(* diagnoseDefect (diagnose.ts), and two module-level tables, MATERIALS    *)
(* (materials.ts) and DEFECT_DATABASE (defects.ts).  The tables are        *)
(* JavaScript objects that live as long as the page: they are the state.   *)
(* Every call is one atomic step (the code is synchronous).                *)
(*                                                                         *)
(* Numbers.  TLC has integers only, so non-integer quantities are kept in  *)
(* fixed point, exactly:                                                   *)
(*   - blowUpRatioRange and frostLineHeightFactor are in tenths;           *)
(*   - targetGauge is in hundredths of a mil (75 is 0.75 mil);             *)
(*   - blowUpRatio is in units of 1/120 (400 is 20/6), 120 being the       *)
(*     least common multiple of the die sizes 4, 6, 8, 10, 12, so that     *)
(*     targetOD / dieSize is exact for whole-inch targetOD;                *)
(*   - material densities are in thousandths of lb/cu.in.                  *)
(* Temperatures, speeds, rates and targetOD are whole numbers.             *)
(***************************************************************************)
EXTENDS Integers, Sequences, FiniteSets, TLC

VARIABLES
  MATERIALS,        \* the material table object (materials.ts)
  DEFECT_DATABASE,  \* the defect table object (defects.ts)
  diagnoseCalls,    \* number of diagnoseDefect calls made so far
  lastKind,         \* the call that has just returned: "optimize", "diagnose",
                    \* or "none" once the caller is done with its result
  lastInputs,       \* the argument of that call
  lastResult,       \* the value it returned, as it was on return
  mode,             \* App's mode state: the form that is mounted (App.tsx)
  formInputs,       \* the mounted form's inputs state
  results           \* the mounted form's results state (NoResult for null)

vars ==
  << MATERIALS, DEFECT_DATABASE, diagnoseCalls, lastKind, lastInputs, lastResult,
     mode, formInputs, results >>

(***************************************************************************)
(* Bounds of the exploration.                                              *)
(***************************************************************************)
MaxDiagnoseCalls == 2

MaxOD == 62

(***************************************************************************)
(* String.prototype.toLowerCase and String.prototype.includes.             *)
(***************************************************************************)
UpperToLower ==
  [ c \in { "A", "B", "C", "D", "E", "F", "G", "H", "I", "J", "K", "L", "M",
            "N", "O", "P", "Q", "R", "S", "T", "U", "V", "W", "X", "Y", "Z" } |->
      CASE c = "A" -> "a" [] c = "B" -> "b" [] c = "C" -> "c" [] c = "D" -> "d"
        [] c = "E" -> "e" [] c = "F" -> "f" [] c = "G" -> "g" [] c = "H" -> "h"
        [] c = "I" -> "i" [] c = "J" -> "j" [] c = "K" -> "k" [] c = "L" -> "l"
        [] c = "M" -> "m" [] c = "N" -> "n" [] c = "O" -> "o" [] c = "P" -> "p"
        [] c = "Q" -> "q" [] c = "R" -> "r" [] c = "S" -> "s" [] c = "T" -> "t"
        [] c = "U" -> "u" [] c = "V" -> "v" [] c = "W" -> "w" [] c = "X" -> "x"
        [] c = "Y" -> "y" [] c = "Z" -> "z" ]

RECURSIVE toLowerCase(_)
toLowerCase(s) ==
  IF Len(s) = 0
    THEN s
    ELSE LET c == SubSeq(s, 1, 1)
         IN  (IF c \in DOMAIN UpperToLower THEN UpperToLower[c] ELSE c)
               \o toLowerCase(SubSeq(s, 2, Len(s)))

includes(s, p) ==
  \E i \in 1 .. (Len(s) - Len(p) + 1) : SubSeq(s, i, i + Len(p) - 1) = p

(***************************************************************************)
(* materials.ts: the material table as written in the source.              *)
(* blowUpRatioRange and frostLineHeightFactor are in tenths.               *)
(***************************************************************************)
MaterialTypes == { "HDPE", "LDPE", "LLDPE", "EVOH" }

Material_HDPE ==
  [ name |-> "HDPE",
    fullName |-> "High-Density Polyethylene",
    meltTempRange |-> [ min |-> 400, max |-> 500 ],
    processingTempRange |-> [ min |-> 350, max |-> 550 ],
    barrelTemperatures |->
      [ feed |-> [ min |-> 300, max |-> 350, recommended |-> 325 ],
        compression |-> [ min |-> 360, max |-> 420, recommended |-> 390 ],
        metering |-> [ min |-> 400, max |-> 460, recommended |-> 430 ],
        die |-> [ min |-> 410, max |-> 480, recommended |-> 445 ] ],
    screwSpeedRange |-> [ min |-> 30, max |-> 120 ],
    meltPressureRange |-> [ min |-> 2500, max |-> 5500 ],
    blowUpRatioRange |-> [ min |-> 20, max |-> 40 ],
    frostLineHeightFactor |-> 12,
    notes |->
      << "HDPE requires higher melt temps than LDPE for proper flow",
         "Sensitive to screw speed - too fast causes melt fracture",
         "Good mechanical properties but narrower processing window",
         "May require melt pressure monitoring for quality control" >> ]

Material_LDPE ==
  [ name |-> "LDPE",
    fullName |-> "Low-Density Polyethylene",
    meltTempRange |-> [ min |-> 340, max |-> 450 ],
    processingTempRange |-> [ min |-> 300, max |-> 500 ],
    barrelTemperatures |->
      [ feed |-> [ min |-> 280, max |-> 330, recommended |-> 305 ],
        compression |-> [ min |-> 320, max |-> 380, recommended |-> 350 ],
        metering |-> [ min |-> 360, max |-> 420, recommended |-> 390 ],
        die |-> [ min |-> 370, max |-> 440, recommended |-> 405 ] ],
    screwSpeedRange |-> [ min |-> 40, max |-> 150 ],
    meltPressureRange |-> [ min |-> 2000, max |-> 4500 ],
    blowUpRatioRange |-> [ min |-> 15, max |-> 35 ],
    frostLineHeightFactor |-> 10,
    notes |->
      << "LDPE has excellent processability and wide operating window",
         "Good optical clarity possible at lower melt temps",
         "Branched structure allows high output rates",
         "Less sensitive to processing variations than HDPE" >> ]

Material_LLDPE ==
  [ name |-> "LLDPE",
    fullName |-> "Linear Low-Density Polyethylene",
    meltTempRange |-> [ min |-> 360, max |-> 480 ],
    processingTempRange |-> [ min |-> 320, max |-> 520 ],
    barrelTemperatures |->
      [ feed |-> [ min |-> 290, max |-> 340, recommended |-> 315 ],
        compression |-> [ min |-> 340, max |-> 400, recommended |-> 370 ],
        metering |-> [ min |-> 380, max |-> 440, recommended |-> 410 ],
        die |-> [ min |-> 390, max |-> 460, recommended |-> 425 ] ],
    screwSpeedRange |-> [ min |-> 35, max |-> 130 ],
    meltPressureRange |-> [ min |-> 3000, max |-> 6000 ],
    blowUpRatioRange |-> [ min |-> 20, max |-> 45 ],
    frostLineHeightFactor |-> 11,
    notes |->
      << "LLDPE requires higher motor load than LDPE - monitor amps",
         "Superior puncture and tear resistance",
         "Higher melt viscosity - may need higher temps",
         "Often blended with LDPE for improved processability" >> ]

Material_EVOH ==
  [ name |-> "EVOH",
    fullName |-> "Ethylene Vinyl Alcohol",
    meltTempRange |-> [ min |-> 380, max |-> 440 ],
    processingTempRange |-> [ min |-> 350, max |-> 470 ],
    barrelTemperatures |->
      [ feed |-> [ min |-> 320, max |-> 360, recommended |-> 340 ],
        compression |-> [ min |-> 360, max |-> 400, recommended |-> 380 ],
        metering |-> [ min |-> 380, max |-> 430, recommended |-> 405 ],
        die |-> [ min |-> 390, max |-> 440, recommended |-> 415 ] ],
    screwSpeedRange |-> [ min |-> 20, max |-> 80 ],
    meltPressureRange |-> [ min |-> 2800, max |-> 5000 ],
    blowUpRatioRange |-> [ min |-> 18, max |-> 30 ],
    frostLineHeightFactor |-> 9,
    notes |->
      << "EVOH is hygroscopic - material must be dried before processing",
         "Narrow processing window - temperature control is critical",
         "Excellent gas barrier properties but moisture sensitive",
         "Often used as barrier layer in coextrusion",
         "Lower screw speeds recommended to prevent degradation" >> ]

\* A material table whose EVOH die zone recommends 375, below the zone's
\* minimum of 390 and below the metering zone's 405.
MaterialsWithColdEvohDie ==
  [ m \in MaterialTypes |->
      CASE m = "HDPE" -> Material_HDPE
        [] m = "LDPE" -> Material_LDPE
        [] m = "LLDPE" -> Material_LLDPE
        [] m = "EVOH" ->
             [ Material_EVOH EXCEPT !.barrelTemperatures.die.recommended = 375 ] ]

\* The value of MATERIALS when the module is loaded.
MaterialsAtStartup ==
  [ m \in MaterialTypes |->
      CASE m = "HDPE" -> Material_HDPE
        [] m = "LDPE" -> Material_LDPE
        [] m = "LLDPE" -> Material_LLDPE
        [] m = "EVOH" -> Material_EVOH ]

\* What a property access gives for a key the object does not have.
undefined == [ undefined |-> TRUE ]

\* What both tables, being object literals, inherit from Object.prototype:
\* its methods (function objects, each with a name), the constructor Object
\* and the __proto__ accessor, which gives Object.prototype itself.
ObjectPrototypeMethods ==
  { "__defineGetter__", "__defineSetter__", "hasOwnProperty",
    "__lookupGetter__", "__lookupSetter__", "isPrototypeOf",
    "propertyIsEnumerable", "toString", "valueOf", "toLocaleString" }

ObjectPrototype ==
  [ key \in ObjectPrototypeMethods \cup { "constructor", "__proto__" } |->
      CASE key = "constructor" -> [ function |-> TRUE, name |-> "Object" ]
        [] key = "__proto__" -> [ prototype |-> "Object" ]
        [] OTHER -> [ function |-> TRUE, name |-> key ] ]

\* object[key]: the object's own property, else the inherited one, else
\* undefined.
PropertyOf(object, key) ==
  IF key \in DOMAIN object THEN object[key]
  ELSE IF key \in DOMAIN ObjectPrototype THEN ObjectPrototype[key]
  ELSE undefined

\* getMaterial(type), `return MATERIALS[type]`: a reference to the table's
\* entry; for a code that is not a key of the table, what the lookup finds
\* on the prototype chain, or undefined (the code makes no check).
getMaterial(materials, type) == PropertyOf(materials, type)

(***************************************************************************)
(* defects.ts: the defect-cause table as written in the source.            *)
(***************************************************************************)
DefectTypes ==
  { "melt_fracture", "shark_skin", "die_lines", "voids_bubbles", "warping",
    "inconsistent_wall_thickness", "surface_roughness", "gauge_bands",
    "wrinkles", "blocking", "gels", "poor_clarity", "bubble_instability" }

Defect_melt_fracture ==
  [ name |-> "Melt Fracture",
    description |->
      "Surface distortion appearing as irregular roughness, often with a \"sharkskin\" or helical pattern. Caused by excessive shear stress at the die exit.",
    causes |->
      << [ cause |-> "Excessive output rate",
          probability |-> "high",
          adjustments |-> << "Reduce screw speed by 10-20%",
                              "Decrease line speed proportionally",
                              "Consider larger die gap" >>,
          explanation |->
            "High throughput increases wall shear stress beyond the critical value for the polymer." ],
         [ cause |-> "Melt temperature too low",
          probability |-> "high",
          adjustments |-> << "Increase metering zone temp by 10-20°F",
                              "Increase die temp by 10-15°F",
                              "Allow stabilization time (10-15 min)" >>,
          explanation |->
            "Lower temperatures increase melt viscosity, raising shear stress at the die wall." ],
         [ cause |-> "Die land length insufficient",
          probability |-> "medium",
          adjustments |-> << "Use die with longer land length (8:1 to 15:1 L/D ratio)",
                              "If not possible, reduce output rate further" >>,
          explanation |->
            "Short die lands do not allow enough stress relaxation before the melt exits." ],
         [ cause |-> "Sharp die entry angle",
          probability |-> "medium",
          adjustments |-> << "Consider die with streamlined entry geometry",
                              "Reduce output as a workaround" >>,
          explanation |->
            "Abrupt flow constrictions create extensional stress concentrations." ] >>,
    generalRecommendations |->
      << "Start by increasing melt temperature - most common fix",
         "If increasing temp does not help, reduce throughput",
         "For persistent issues, consider processing aids (fluoropolymer PPA)" >> ]

Defect_shark_skin ==
  [ name |-> "Shark Skin",
    description |->
      "Fine surface roughness with a regular pattern, typically appearing before full melt fracture. A milder form of surface defect related to die exit stress.",
    causes |->
      << [ cause |-> "Die lip temperature too low",
          probability |-> "high",
          adjustments |-> << "Increase die zone temperature by 5-15°F",
                              "Check die heater band functionality",
                              "Ensure uniform die lip temperature" >>,
          explanation |->
            "Cool die lips increase local viscosity and stress at the exit point." ],
         [ cause |-> "Output rate near critical limit",
          probability |-> "high",
          adjustments |-> << "Reduce screw speed by 5-15%",
                              "Monitor surface quality as you adjust" >>,
          explanation |->
            "Operating near the critical shear rate threshold causes intermittent surface defects." ],
         [ cause |-> "Resin grade not suited for application",
          probability |-> "medium",
          adjustments |-> << "Consider resin with higher melt index (lower viscosity)",
                              "Try resin designed for high-speed extrusion" >>,
          explanation |->
            "Some resin grades have lower critical shear stress thresholds." ] >>,
    generalRecommendations |->
      << "Shark skin often precedes full melt fracture - address early",
         "Processing aids (0.02-0.1% fluoropolymer) very effective",
         "Die conditioning may help - run higher temp briefly" >> ]

Defect_die_lines ==
  [ name |-> "Die Lines",
    description |->
      "Visible lines or streaks running in the machine direction, caused by flow irregularities or die surface issues.",
    causes |->
      << [ cause |-> "Die lip damage or buildup",
          probability |-> "high",
          adjustments |-> << "Stop and clean die lips with brass tools",
                              "Inspect for nicks or scratches",
                              "Polish die lips if damaged" >>,
          explanation |->
            "Any surface irregularity at the die exit will transfer to the film." ],
         [ cause |-> "Die temperature variation",
          probability |-> "high",
          adjustments |-> << "Check all die zone heaters",
                              "Verify thermocouple readings",
                              "Balance die temperatures (within ±5°F)" >>,
          explanation |->
            "Temperature variations cause viscosity differences and flow irregularities." ],
         [ cause |-> "Contamination in melt",
          probability |-> "medium",
          adjustments |-> << "Check hopper and feed throat for contamination",
                              "Purge system thoroughly",
                              "Verify material is clean and dry" >>,
          explanation |->
            "Gels or contaminants can hang up at die lips causing streaks." ],
         [ cause |-> "Screen pack issues",
          probability |-> "medium",
          adjustments |-> << "Replace screen pack",
                              "Check breaker plate for damage",
                              "Use appropriate screen mesh for material" >>,
          explanation |->
            "Torn screens or blocked areas cause flow channeling." ] >>,
    generalRecommendations |->
      << "Die lines are almost always a die condition issue",
         "Regular die lip cleaning prevents most problems",
         "Keep spare die lip inserts on hand" >> ]

Defect_voids_bubbles ==
  [ name |-> "Voids / Bubbles",
    description |->
      "Trapped air or volatiles appearing as bubbles in the film wall, reducing strength and clarity.",
    causes |->
      << [ cause |-> "Moisture in material",
          probability |-> "high",
          adjustments |-> << "Dry material per manufacturer specs",
                              "Check hopper dryer operation",
                              "Verify dew point is adequate (-40°F typical)" >>,
          explanation |->
            "Moisture vaporizes at melt temperature, creating steam bubbles." ],
         [ cause |-> "Feed throat problems",
          probability |-> "high",
          adjustments |-> << "Check for feed throat flooding",
                              "Reduce feed throat cooling if frosting",
                              "Verify consistent pellet feed" >>,
          explanation |->
            "Air can become entrapped in the feed section and carried forward." ],
         [ cause |-> "Melt temperature too high",
          probability |-> "medium",
          adjustments |-> << "Reduce barrel temperatures by 10-20°F",
                              "Reduce screw speed (lowers shear heating)" >>,
          explanation |->
            "Excessive temperature can cause material degradation and gas generation." ],
         [ cause |-> "Volatile additives",
          probability |-> "low",
          adjustments |-> << "Check additive specifications",
                              "Consider pre-compounded materials",
                              "Reduce barrel temperatures if possible" >>,
          explanation |->
            "Some slip agents or other additives have low volatilization temperatures." ] >>,
    generalRecommendations |->
      << "Always dry hygroscopic materials (EVOH, nylon, etc.)",
         "Maintain proper feed section conditions",
         "Voids reduce dart impact and tear strength significantly" >> ]

Defect_warping ==
  [ name |-> "Warping",
    description |->
      "Film does not lay flat, exhibits curl or distortion. Can be MD (machine direction) or TD (transverse direction) dominant.",
    causes |->
      << [ cause |-> "Uneven cooling",
          probability |-> "high",
          adjustments |-> << "Balance air ring air flow around circumference",
                              "Check for blocked air ring ports",
                              "Verify uniform frost line height" >>,
          explanation |->
            "Differential cooling rates cause uneven shrinkage and stress." ],
         [ cause |-> "MD/TD orientation imbalance",
          probability |-> "high",
          adjustments |-> << "Adjust blow-up ratio (BUR)",
                              "Modify frost line height",
                              "Balance draw-down ratio with BUR" >>,
          explanation |->
            "Unbalanced molecular orientation causes directional shrinkage differences." ],
         [ cause |-> "Frost line too low or high",
          probability |-> "medium",
          adjustments |-> << "Adjust air ring cooling capacity",
                              "Modify output rate if needed",
                              "Target frost line at 3-6x die diameter" >>,
          explanation |->
            "Frost line position affects crystallization and orientation development." ] >>,
    generalRecommendations |->
      << "Measure actual BUR and compare to target",
         "Check film properties in MD and TD - balanced is ideal",
         "IBC (Internal Bubble Cooling) helps if available" >> ]

Defect_inconsistent_wall_thickness ==
  [ name |-> "Inconsistent Wall Thickness",
    description |->
      "Gauge variation around the circumference or along the length of the film, causing weak spots and winding problems.",
    causes |->
      << [ cause |-> "Die gap not uniform",
          probability |-> "high",
          adjustments |-> << "Measure and adjust die gap around circumference",
                              "Use feeler gauges to verify uniformity",
                              "Target ±0.001\" variation" >>,
          explanation |->
            "Die gap variations directly translate to thickness variations." ],
         [ cause |-> "Unbalanced air ring",
          probability |-> "high",
          adjustments |-> << "Level air ring precisely",
                              "Balance air flow at multiple points",
                              "Check air ring lip gap uniformity" >>,
          explanation |->
            "Cooling variations cause differential drawdown around bubble." ],
         [ cause |-> "Temperature variations in die",
          probability |-> "medium",
          adjustments |-> << "Check all die zone heaters",
                              "Verify proper heater coverage",
                              "Look for drafts affecting die" >>,
          explanation |->
            "Hot spots have lower viscosity and flow more material." ],
         [ cause |-> "Melt temperature instability",
          probability |-> "medium",
          adjustments |-> << "Check barrel temperature stability",
                              "Verify consistent screw speed",
                              "Ensure steady material feed" >>,
          explanation |->
            "Melt temp fluctuations cause viscosity changes and output variations." ] >>,
    generalRecommendations |->
      << "Gauge variation should be <±5% of nominal",
         "Automatic gauge control systems help significantly",
         "Oscillating haul-off can spread minor variations" >> ]

Defect_surface_roughness ==
  [ name |-> "Surface Roughness",
    description |->
      "General loss of surface gloss or smoothness, not related to melt fracture. May affect print quality and optical properties.",
    causes |->
      << [ cause |-> "Melt temperature too low",
          probability |-> "high",
          adjustments |-> << "Increase die temperature by 10-20°F",
                              "Increase metering zone temperature",
                              "Allow melt to homogenize longer" >>,
          explanation |->
            "Insufficient melt temperature prevents good surface finish development." ],
         [ cause |-> "Cooling too rapid",
          probability |-> "high",
          adjustments |-> << "Reduce air ring velocity",
                              "Raise frost line height",
                              "Consider lower volume, higher velocity air" >>,
          explanation |->
            "Rapid quench freezes surface before it can smooth out." ],
         [ cause |-> "Incompatible additives",
          probability |-> "medium",
          adjustments |-> << "Review additive package compatibility",
                              "Check for slip/antiblock migration issues",
                              "Consider different additive levels" >>,
          explanation |->
            "Some additives can bloom to surface and cause haze or roughness." ] >>,
    generalRecommendations |->
      << "Surface quality is very sensitive to die temperature",
         "Corona treatment level affects apparent roughness",
         "Some roughness may be acceptable depending on application" >> ]

Defect_gauge_bands ==
  [ name |-> "Gauge Bands",
    description |->
      "Periodic thickness variations appearing as visible bands or rings around the film circumference. Often creates roll hardness variations.",
    causes |->
      << [ cause |-> "Air ring instability",
          probability |-> "high",
          adjustments |-> << "Check air ring for vibration or flutter",
                              "Verify blower output is steady",
                              "Inspect air ring for damage or blockage" >>,
          explanation |->
            "Pulsating air flow causes cyclical cooling variations that create bands." ],
         [ cause |-> "Extruder output surging",
          probability |-> "high",
          adjustments |-> << "Check screw speed consistency",
                              "Verify feed consistency (no bridging)",
                              "Inspect screw and barrel for wear" >>,
          explanation |->
            "Variations in melt delivery create periodic thickness changes." ],
         [ cause |-> "Die bolt pattern interference",
          probability |-> "medium",
          adjustments |-> << "Check die bolt torque uniformity",
                              "Verify die is not warped",
                              "Consider thermal bolt adjustments" >>,
          explanation |->
            "Die bolts can create local flow restrictions that cause repeating patterns." ],
         [ cause |-> "Haul-off speed variation",
          probability |-> "medium",
          adjustments |-> << "Check nip roll drive for consistency",
                              "Verify encoder/tachometer operation",
                              "Inspect rolls for damage or buildup" >>,
          explanation |->
            "Speed variations in takeoff create periodic gauge changes." ] >>,
    generalRecommendations |->
      << "Gauge bands often have mechanical origin - check rotating equipment",
         "Oscillating haul-off can mask minor banding",
         "Frequency analysis can help identify the source" >> ]

Defect_wrinkles ==
  [ name |-> "Wrinkles",
    description |->
      "Film surface exhibits creases or folds, often appearing after collapsing frame or at winder. Affects roll quality and downstream converting.",
    causes |->
      << [ cause |-> "Uneven film tension",
          probability |-> "high",
          adjustments |-> << "Balance collapsing frame geometry",
                              "Check guide roll alignment",
                              "Verify uniform nip pressure across width" >>,
          explanation |->
            "Tension differences across the web cause material to bunch up." ],
         [ cause |-> "Gauge variation",
          probability |-> "high",
          adjustments |-> << "Improve gauge uniformity (see gauge control)",
                              "Balance air ring cooling",
                              "Adjust die gap as needed" >>,
          explanation |->
            "Thick and thin areas travel at different effective speeds, creating wrinkles." ],
         [ cause |-> "Collapsing frame issues",
          probability |-> "medium",
          adjustments |-> << "Verify frame angle is appropriate",
                              "Check for worn or damaged guide boards",
                              "Ensure bubble is centered in frame" >>,
          explanation |->
            "Poor bubble collapse geometry causes uneven layflat." ],
         [ cause |-> "Static electricity",
          probability |-> "low",
          adjustments |-> << "Install static elimination equipment",
                              "Increase ambient humidity if possible",
                              "Ground all equipment properly" >>,
          explanation |->
            "Static can cause film layers to attract/repel unpredictably." ] >>,
    generalRecommendations |->
      << "Wrinkles often originate at the collapsing frame",
         "Check all roller alignments in film path",
         "Proper winder tension control is essential" >> ]

Defect_blocking ==
  [ name |-> "Blocking",
    description |->
      "Film layers stick together on the roll, making unwinding difficult or causing film damage. Common issue with certain additives or storage conditions.",
    causes |->
      << [ cause |-> "Insufficient antiblock additive",
          probability |-> "high",
          adjustments |-> << "Increase antiblock concentration (0.1-0.3% typical)",
                              "Verify additive is properly dispersed",
                              "Consider different antiblock type (silica vs talc)" >>,
          explanation |->
            "Antiblock creates micro-roughness that prevents intimate layer contact." ],
         [ cause |-> "Excessive winding tension",
          probability |-> "high",
          adjustments |-> << "Reduce winder tension 10-20%",
                              "Use taper tension profile (decreasing toward core)",
                              "Avoid over-tight rolls" >>,
          explanation |->
            "High pressure between layers promotes blocking." ],
         [ cause |-> "Film too warm at winder",
          probability |-> "medium",
          adjustments |-> << "Increase cooling before winder",
                              "Reduce line speed if needed",
                              "Add cooling rolls if available" >>,
          explanation |->
            "Warm film is softer and more prone to blocking." ],
         [ cause |-> "Storage conditions",
          probability |-> "medium",
          adjustments |-> << "Store rolls at lower temperature",
                              "Avoid stacking heavy rolls",
                              "Allow rolls to age before shipping" >>,
          explanation |->
            "Heat and pressure during storage worsen blocking over time." ] >>,
    generalRecommendations |->
      << "Blocking often develops during storage, not immediately",
         "Test blocking resistance after 24-48 hours",
         "Slip additives can worsen blocking - balance carefully" >> ]

Defect_gels ==
  [ name |-> "Gels",
    description |->
      "Small, hard particles visible in the film, appearing as specs or fish-eyes. Can be crosslinked polymer, contamination, or undispersed additives.",
    causes |->
      << [ cause |-> "Degraded material in system",
          probability |-> "high",
          adjustments |-> << "Purge extruder thoroughly",
                              "Check for dead spots in flow path",
                              "Reduce residence time if possible" >>,
          explanation |->
            "Material that sits too long at temperature can crosslink and form gels." ],
         [ cause |-> "Contamination",
          probability |-> "high",
          adjustments |-> << "Inspect raw material for contamination",
                              "Clean hopper and feed system",
                              "Check regrind quality and cleanliness" >>,
          explanation |->
            "Foreign material or degraded regrind creates visible defects." ],
         [ cause |-> "Screen pack breakthrough",
          probability |-> "medium",
          adjustments |-> << "Replace screen pack",
                              "Use finer mesh screens",
                              "Verify breaker plate condition" >>,
          explanation |->
            "Damaged screens allow gels to pass through." ],
         [ cause |-> "Additive dispersion issues",
          probability |-> "medium",
          adjustments |-> << "Use pre-compounded materials",
                              "Verify masterbatch let-down ratio",
                              "Increase mixing (screw design or speed)" >>,
          explanation |->
            "Undispersed additives can appear as gel-like defects." ] >>,
    generalRecommendations |->
      << "Gels are often \"built up\" over time - regular purging helps",
         "Fine screen packs (150+ mesh) catch most gels",
         "Reduce barrel temperatures if degradation suspected" >> ]

Defect_poor_clarity ==
  [ name |-> "Poor Clarity",
    description |->
      "Film appears hazy, cloudy, or has reduced transparency. Affects appearance and may indicate processing issues.",
    causes |->
      << [ cause |-> "Excessive crystallinity",
          probability |-> "high",
          adjustments |-> << "Increase cooling rate (raise frost line)",
                              "Reduce melt temperature slightly",
                              "Increase quench air velocity" >>,
          explanation |->
            "Large crystals scatter light and reduce clarity. Fast cooling creates smaller crystals." ],
         [ cause |-> "Surface roughness",
          probability |-> "high",
          adjustments |-> << "Increase melt/die temperature",
                              "Optimize frost line height",
                              "Reduce cooling rate initially" >>,
          explanation |->
            "Rough surfaces scatter light and appear hazy." ],
         [ cause |-> "Additive bloom",
          probability |-> "medium",
          adjustments |-> << "Reduce slip/antiblock levels",
                              "Change additive types",
                              "Adjust processing temperatures" >>,
          explanation |->
            "Additives migrating to surface create haze." ],
         [ cause |-> "Moisture in material",
          probability |-> "medium",
          adjustments |-> << "Dry material properly",
                              "Check hopper dryer operation",
                              "Verify material storage conditions" >>,
          explanation |->
            "Water vapor creates micro-voids that scatter light." ] >>,
    generalRecommendations |->
      << "Clarity is very material-dependent - LDPE typically best",
         "HDPE inherently more hazy due to higher crystallinity",
         "Balance clarity against other properties (stiffness, strength)" >> ]

Defect_bubble_instability ==
  [ name |-> "Bubble Instability",
    description |->
      "Bubble oscillates, breathes, or moves erratically. Can be helical (corkscrew), draw resonance, or random motion. Causes gauge variation and production issues.",
    causes |->
      << [ cause |-> "Melt temperature variation",
          probability |-> "high",
          adjustments |-> << "Stabilize barrel temperatures",
                              "Check for screw/barrel wear",
                              "Verify consistent material feed" >>,
          explanation |->
            "Temperature changes affect melt viscosity and bubble strength." ],
         [ cause |-> "Air ring imbalance",
          probability |-> "high",
          adjustments |-> << "Level air ring precisely",
                              "Balance air flow around circumference",
                              "Check for blocked or damaged ports" >>,
          explanation |->
            "Uneven cooling causes asymmetric forces on the bubble." ],
         [ cause |-> "Inadequate melt strength",
          probability |-> "medium",
          adjustments |-> << "Reduce melt temperature",
                              "Decrease output rate",
                              "Consider different resin grade" >>,
          explanation |->
            "Weak melt cannot support the bubble weight and internal pressure." ],
         [ cause |-> "Draft or air currents",
          probability |-> "medium",
          adjustments |-> << "Shield bubble from drafts",
                              "Install bubble cage if needed",
                              "Check building HVAC systems" >>,
          explanation |->
            "External air movement disturbs the delicate bubble equilibrium." ],
         [ cause |-> "Improper BUR or frost line",
          probability |-> "medium",
          adjustments |-> << "Adjust blow-up ratio",
                              "Modify frost line height",
                              "Balance cooling with output rate" >>,
          explanation |->
            "Wrong BUR or frost line position can cause natural instability modes." ] >>,
    generalRecommendations |->
      << "Draw resonance often occurs at specific output rates - adjust slightly",
         "Helical instability usually air ring related",
         "IBC can help stabilize large or thin-gauge bubbles",
         "Consistent melt pressure is key to stable operation" >> ]

\* The value of DEFECT_DATABASE when the module is loaded.
DefectDatabaseAtStartup ==
  [ d \in DefectTypes |->
      CASE d = "melt_fracture" -> Defect_melt_fracture
        [] d = "shark_skin" -> Defect_shark_skin
        [] d = "die_lines" -> Defect_die_lines
        [] d = "voids_bubbles" -> Defect_voids_bubbles
        [] d = "warping" -> Defect_warping
        [] d = "inconsistent_wall_thickness" -> Defect_inconsistent_wall_thickness
        [] d = "surface_roughness" -> Defect_surface_roughness
        [] d = "gauge_bands" -> Defect_gauge_bands
        [] d = "wrinkles" -> Defect_wrinkles
        [] d = "blocking" -> Defect_blocking
        [] d = "gels" -> Defect_gels
        [] d = "poor_clarity" -> Defect_poor_clarity
        [] d = "bubble_instability" -> Defect_bubble_instability ]

\* getDefectInfo(defect): a reference to the table's entry.
\* `return DEFECT_DATABASE[defect]`: the entry; for a code that is not a key
\* of the table, the inherited property or undefined.
getDefectInfo(database, defect) == PropertyOf(database, defect)

\* How a call ends: it returns a value or throws an error.
Returns(value) == [ outcome |-> "return", value |-> value ]

Throws(error) == [ outcome |-> "throw", value |-> error ]

\* `return DEFECT_DATABASE[defect].name`: reading .name of undefined throws a
\* TypeError; an inherited function has a name of its own and Object.prototype
\* has none.
getDefectDisplayName(database, defect) ==
  LET info == PropertyOf(database, defect)
  IN  IF info = undefined THEN Throws("TypeError")
      ELSE IF "name" \in DOMAIN info THEN Returns(info.name)
      ELSE Returns(undefined)

(***************************************************************************)
(* diagnose.ts                                                             *)
(***************************************************************************)

\* The flags analyzeCauses computes from the current settings.
dieTempLow(materialProps, dieTemp) ==
  dieTemp < materialProps.barrelTemperatures.die.min

dieTempHigh(materialProps, dieTemp) ==
  dieTemp > materialProps.barrelTemperatures.die.max

meltTempLow(materialProps, meltTemp) ==
  meltTemp < materialProps.meltTempRange.min

meltTempHigh(materialProps, meltTemp) ==
  meltTemp > materialProps.meltTempRange.max

\* screwSpeed > max * 0.9, on whole numbers: 10 * screwSpeed > 9 * max.
\* A variant of screwSpeedHigh that is true at 90% of the maximum as well
\* (`>=`).
screwSpeedHighAtLimit(materialProps, screwSpeed) ==
  10 * screwSpeed >= 9 * materialProps.screwSpeedRange.max

screwSpeedHigh(materialProps, screwSpeed) ==
  10 * screwSpeed > 9 * materialProps.screwSpeedRange.max

\* cause.cause.toLowerCase().includes(keyword).  The labels of the table are
\* never assigned to, so the answers are tabulated once for the labels and
\* keywords of the source.
CauseLabels ==
  UNION { { DefectDatabaseAtStartup[d].causes[i].cause :
              i \in 1 .. Len(DefectDatabaseAtStartup[d].causes) } : d \in DefectTypes }

LabelsIncluding(keyword) ==
  { l \in CauseLabels : includes(toLowerCase(l), keyword) }

LabelsWithTemperature == LabelsIncluding("temperature")

LabelsWithTemp == LabelsIncluding("temp")

LabelsWithLow == LabelsIncluding("low")

LabelsWithHigh == LabelsIncluding("high")

LabelsWithOutput == LabelsIncluding("output")

LabelsWithRate == LabelsIncluding("rate")

LabelsWithSpeed == LabelsIncluding("speed")

LabelsWithMoisture == LabelsIncluding("moisture")

labelIncludes(cause, keyword) ==
  cause.cause \in
    CASE keyword = "temperature" -> LabelsWithTemperature
      [] keyword = "temp" -> LabelsWithTemp
      [] keyword = "low" -> LabelsWithLow
      [] keyword = "high" -> LabelsWithHigh
      [] keyword = "output" -> LabelsWithOutput
      [] keyword = "rate" -> LabelsWithRate
      [] keyword = "speed" -> LabelsWithSpeed
      [] keyword = "moisture" -> LabelsWithMoisture

\* A variant of applyTemperatureRules whose low rule looks at meltTempLow only.
applyTemperatureRulesMeltOnly(cause, materialProps, inputs) ==
  LET meltTemp == inputs.currentSettings.meltTemp
      dieTemp == inputs.currentSettings.dieTemp
      c1 == IF /\ labelIncludes(cause, "low")
               /\ meltTempLow(materialProps, meltTemp)
              THEN [ cause EXCEPT
                       !.probability = "high",
                       !.explanation =
                          @ \o " [Current settings confirm low temperature condition]" ]
              ELSE cause
      c2 == IF /\ labelIncludes(cause, "high")
               /\ (meltTempHigh(materialProps, meltTemp) \/ dieTempHigh(materialProps, dieTemp))
              THEN [ c1 EXCEPT
                       !.probability = "high",
                       !.explanation =
                          @ \o " [Current settings confirm high temperature condition]" ]
              ELSE c1
  IN  IF labelIncludes(cause, "temperature") \/ labelIncludes(cause, "temp")
        THEN c2
        ELSE cause

\* A variant of applyTemperatureRules whose high rule looks at dieTempHigh only.
applyTemperatureRulesDieOnly(cause, materialProps, inputs) ==
  LET meltTemp == inputs.currentSettings.meltTemp
      dieTemp == inputs.currentSettings.dieTemp
      c1 == IF /\ labelIncludes(cause, "low")
               /\ (meltTempLow(materialProps, meltTemp) \/ dieTempLow(materialProps, dieTemp))
              THEN [ cause EXCEPT
                       !.probability = "high",
                       !.explanation =
                          @ \o " [Current settings confirm low temperature condition]" ]
              ELSE cause
      c2 == IF /\ labelIncludes(cause, "high")
               /\ dieTempHigh(materialProps, dieTemp)
              THEN [ c1 EXCEPT
                       !.probability = "high",
                       !.explanation =
                          @ \o " [Current settings confirm high temperature condition]" ]
              ELSE c1
  IN  IF labelIncludes(cause, "temperature") \/ labelIncludes(cause, "temp")
        THEN c2
        ELSE cause

\* Temperature-related causes: the body of the first `if` of the forEach.
applyTemperatureRules(cause, materialProps, inputs) ==
  LET meltTemp == inputs.currentSettings.meltTemp
      dieTemp == inputs.currentSettings.dieTemp
      c1 == IF /\ labelIncludes(cause, "low")
               /\ (meltTempLow(materialProps, meltTemp) \/ dieTempLow(materialProps, dieTemp))
              THEN [ cause EXCEPT
                       !.probability = "high",
                       !.explanation =
                          @ \o " [Current settings confirm low temperature condition]" ]
              ELSE cause
      c2 == IF /\ labelIncludes(cause, "high")
               /\ (meltTempHigh(materialProps, meltTemp) \/ dieTempHigh(materialProps, dieTemp))
              THEN [ c1 EXCEPT
                       !.probability = "high",
                       !.explanation =
                          @ \o " [Current settings confirm high temperature condition]" ]
              ELSE c1
  IN  IF labelIncludes(cause, "temperature") \/ labelIncludes(cause, "temp")
        THEN c2
        ELSE cause

\* Output/speed related causes: the second `if` of the forEach.
applyScrewSpeedRule(cause, materialProps, inputs) ==
  IF /\ \/ labelIncludes(cause, "output")
        \/ labelIncludes(cause, "rate")
        \/ labelIncludes(cause, "speed")
     /\ screwSpeedHigh(materialProps, inputs.currentSettings.screwSpeed)
    THEN [ cause EXCEPT
             !.probability = "high",
             !.explanation = @ \o " [Current screw speed is near upper limit]" ]
    ELSE cause

\* A variant of applyMoistureRule with an else branch that demotes the cause
\* for the other materials (`else cause.probability = 'low'`).
applyMoistureRuleDemoting(cause, materialProps, inputs) ==
  IF labelIncludes(cause, "moisture")
    THEN IF inputs.material = "EVOH"
           THEN [ cause EXCEPT
                    !.probability = "high",
                    !.explanation = @ \o " [EVOH is hygroscopic - moisture is common issue]" ]
           ELSE [ cause EXCEPT !.probability = "low" ]
    ELSE cause

\* Moisture related causes: the third `if` of the forEach.
applyMoistureRule(cause, materialProps, inputs) ==
  IF labelIncludes(cause, "moisture") /\ inputs.material = "EVOH"
    THEN [ cause EXCEPT
             !.probability = "high",
             !.explanation = @ \o " [EVOH is hygroscopic - moisture is common issue]" ]
    ELSE cause

\* One iteration of causes.forEach: the three rule groups in source order.
adjustCause(cause, materialProps, inputs) ==
  applyMoistureRule(
    applyScrewSpeedRule(
      applyTemperatureRules(cause, materialProps, inputs),
      materialProps, inputs),
    materialProps, inputs)

probabilityOrder(p) ==
  CASE p = "high" -> 0 [] p = "medium" -> 1 [] p = "low" -> 2

\* The comparator handed to Array.prototype.sort.
compareCauses(a, b) == probabilityOrder(a.probability) - probabilityOrder(b.probability)

\* Array.prototype.sort is a stable sort (ECMAScript 2019): an insertion sort
\* that puts each element after every element that does not compare greater.
\* A variant of sortInsert that puts each element before its equals (an
\* unstable sort).
sortInsertBeforeEquals(sorted, x) ==
  LET k == Cardinality({ i \in 1 .. Len(sorted) : compareCauses(sorted[i], x) < 0 })
  IN  SubSeq(sorted, 1, k) \o << x >> \o SubSeq(sorted, k + 1, Len(sorted))

sortInsert(sorted, x) ==
  LET k == Cardinality({ i \in 1 .. Len(sorted) : compareCauses(sorted[i], x) <= 0 })
  IN  SubSeq(sorted, 1, k) \o << x >> \o SubSeq(sorted, k + 1, Len(sorted))

RECURSIVE sortPrefix(_, _)
sortPrefix(arr, n) ==
  IF n = 0 THEN << >> ELSE sortInsert(sortPrefix(arr, n - 1), arr[n])

\* A variant of sortCauses that leaves the causes in table order (no sort).
sortCausesTableOrder(arr) == arr

\* A variant of sortCauses that returns the three top-ranked causes only
\* (`.slice(0, 3)`).
sortCausesTopThree(arr) == SubSeq(sortPrefix(arr, Len(arr)), 1, 3)

sortCauses(arr) == sortPrefix(arr, Len(arr))

(***************************************************************************)
(* analyzeCauses.  `[...defectInfo.causes]` copies the array, not the      *)
(* cause objects in it: the objects forEach assigns to are the objects of  *)
(* DEFECT_DATABASE.  The call therefore has an effect on the table, which  *)
(* the operator returns next to the sorted array: the table's array keeps  *)
(* its order (sort works on the copied array), its elements are changed.   *)
(***************************************************************************)
analyzeCauses(database, materials, inputs) ==
  LET defectInfo == getDefectInfo(database, inputs.defect)
      materialProps == getMaterial(materials, inputs.material)
      adjusted ==
        [ i \in 1 .. Len(defectInfo.causes) |->
            adjustCause(defectInfo.causes[i], materialProps, inputs) ]
  IN  [ causes |-> sortCauses(adjusted),
        database |-> [ database EXCEPT ![inputs.defect].causes = adjusted ] ]

getMaterialSpecificRecommendations(inputs) ==
  CASE inputs.material = "HDPE" ->
         << "HDPE has a narrow processing window - small temperature adjustments (5-10°F) recommended",
            "Monitor melt pressure closely when adjusting parameters" >>
    [] inputs.material = "LDPE" ->
         << "LDPE is forgiving - larger parameter adjustments are usually safe" >>
    [] inputs.material = "LLDPE" ->
         << "LLDPE requires higher motor load - ensure extruder is not overloaded",
            "Consider blending with LDPE if processing is difficult" >>
    [] inputs.material = "EVOH" ->
         << "CRITICAL: Verify material was properly dried before processing",
            "EVOH degradation is irreversible - avoid excessive temperature or residence time",
            "Consider purging with LDPE before and after EVOH runs" >>
    [] OTHER -> << >>

getProcessChecks(inputs) ==
  CASE inputs.defect \in { "melt_fracture", "shark_skin" } ->
         << "Verify die land length and condition",
            "Check if processing aid is being used and at correct level" >>
    [] inputs.defect = "die_lines" ->
         << "Inspect die lips for damage with magnification",
            "Check for contamination in hopper and feed system" >>
    [] inputs.defect = "voids_bubbles" ->
         << "Verify hopper dryer is operating (if applicable)",
            "Check feed throat temperature and condition" >>
    [] inputs.defect = "warping" ->
         << "Measure frost line height around circumference",
            "Check air ring leveling and balance" >>
    [] inputs.defect = "inconsistent_wall_thickness" ->
         << "Measure die gap at 8 points minimum",
            "Verify all die zone heaters are functioning" >>
    [] inputs.defect = "surface_roughness" ->
         << "Check corona treater level (if applicable)",
            "Inspect winder tension and roll quality" >>
    [] OTHER -> << >>

\* diagnoseDefect: the returned DiagnoseResult and the table as the call leaves it.
diagnoseDefect(database, materials, inputs) ==
  LET defectInfo == getDefectInfo(database, inputs.defect)
      analyzed == analyzeCauses(database, materials, inputs)
  IN  [ result |->
          [ defect |-> inputs.defect,
            defectName |-> defectInfo.name,
            description |-> defectInfo.description,
            causes |-> analyzed.causes,
            generalRecommendations |->
              defectInfo.generalRecommendations
                \o getMaterialSpecificRecommendations(inputs)
                \o getProcessChecks(inputs) ],
        database |-> analyzed.database ]

(***************************************************************************)
(* optimizer.ts                                                            *)
(***************************************************************************)
MathMax(a, b) == IF a >= b THEN a ELSE b

MathMin(a, b) == IF a <= b THEN a ELSE b

\* Number.prototype.toFixed(2) of a value given in hundredths.
toFixed2(hundredths) ==
  ToString(hundredths \div 100) \o "."
    \o ToString((hundredths % 100) \div 10) \o ToString(hundredths % 10)

\* calculateLayflat(od) = (Math.PI * od) / 2, in hundredths rounded to nearest:
\* PI * 50 = 157.07963268 to eleven digits.
calculateLayflat(od) == od * 157 + (od * 7963268 + 50000000) \div 100000000

\* layflat * 2 = Math.PI * od, in hundredths rounded to nearest.
calculateFullWidth(od) == od * 314 + (od * 15926536 + 50000000) \div 100000000

\* The template string unshifted onto the notes.
layflatNote(od) ==
  "Target layflat width: " \o toFixed2(calculateLayflat(od))
    \o "\" (" \o toFixed2(calculateFullWidth(od)) \o "\" full width)"

\* getMaterialDensity, in thousandths of lb/cu.in.
getMaterialDensity(material) ==
  CASE material = "HDPE" -> 35
    [] material = "LDPE" -> 33
    [] material = "LLDPE" -> 34
    [] material = "EVOH" -> 42

\* A variant of getDieSize with exclusive thresholds (`<`).
getDieSizeExclusive(targetOD) ==
  IF targetOD < 10 THEN 4
  ELSE IF targetOD < 20 THEN 6
  ELSE IF targetOD < 35 THEN 8
  ELSE IF targetOD < 50 THEN 10
  ELSE 12

getDieSize(targetOD) ==
  IF targetOD <= 10 THEN 4
  ELSE IF targetOD <= 20 THEN 6
  ELSE IF targetOD <= 35 THEN 8
  ELSE IF targetOD <= 50 THEN 10
  ELSE 12

\* calculateBUR, in units of 1/120: targetOD / dieSize is targetOD * (120 / dieSize)
\* and a range bound of t tenths is 12 * t.
\* A variant of calculateBUR that clamps from below only.
calculateBURNoUpperClamp(materials, targetOD, material) ==
  LET materialProps == getMaterial(materials, material)
      dieSize == getDieSize(targetOD)
      calculatedBUR == targetOD * (120 \div dieSize)
  IN  MathMax(12 * materialProps.blowUpRatioRange.min, calculatedBUR)

\* A variant of calculateBUR that returns targetOD / dieSize as it is.
calculateBURUnclamped(materials, targetOD, material) ==
  targetOD * (120 \div getDieSize(targetOD))

calculateBUR(materials, targetOD, material) ==
  LET materialProps == getMaterial(materials, material)
      dieSize == getDieSize(targetOD)
      calculatedBUR == targetOD * (120 \div dieSize)
  IN  MathMax(12 * materialProps.blowUpRatioRange.min,
              MathMin(calculatedBUR, 12 * materialProps.blowUpRatioRange.max))

\* Math.round of x / 25 for x >= 0.
roundOf25ths(x) == (2 * x + 25) \div 50

\* A variant of calculateScrewSpeed whose recommended speed is the rounded
\* baseRPM, not clamped into the material's range.
calculateScrewSpeedUnclamped(materials, productionRate, material) ==
  LET materialProps == getMaterial(materials, material)
      baseRPM == 5 * productionRate
      minRPM == MathMax(25 * materialProps.screwSpeedRange.min, 4 * productionRate)
      maxRPM == MathMin(25 * materialProps.screwSpeedRange.max, 6 * productionRate)
  IN  [ min |-> roundOf25ths(minRPM),
        max |-> roundOf25ths(maxRPM),
        recommended |-> roundOf25ths(baseRPM) ]

\* calculateScrewSpeed, in units of 1/25 RPM until rounded: with
\* specificOutput = 5, baseRPM = rate / 5 = 5 * rate / 25,
\* baseRPM * 0.8 = 4 * rate / 25 and baseRPM * 1.2 = 6 * rate / 25.
calculateScrewSpeed(materials, productionRate, material) ==
  LET materialProps == getMaterial(materials, material)
      baseRPM == 5 * productionRate
      minRPM == MathMax(25 * materialProps.screwSpeedRange.min, 4 * productionRate)
      maxRPM == MathMin(25 * materialProps.screwSpeedRange.max, 6 * productionRate)
      recommendedRPM ==
        MathMin(25 * materialProps.screwSpeedRange.max,
                MathMax(25 * materialProps.screwSpeedRange.min, baseRPM))
  IN  [ min |-> roundOf25ths(minRPM),
        max |-> roundOf25ths(maxRPM),
        recommended |-> roundOf25ths(recommendedRPM) ]

(***************************************************************************)
(* calculateLineSpeed.  With gauge g in hundredths of a mil and density d   *)
(* in thousandths,                                                         *)
(*   targetLineSpeed = rate / (PI * od * (g / 100000) * 12 * (d / 1000)) / 60 *)
(*                   = rate * c / P,  c = 10^8 / (720 * PI),  P = od * g * d. *)
(* Math.round(f * targetLineSpeed) is the floor of (2 * f * rate * c + P)   *)
(* over 2 * P, and since P is whole only the floor of 2 * f * rate * c      *)
(* matters.  floorOfProduct(rate, w, hi, lo) is the floor of rate times the *)
(* decimal w.hi lo (four digits each), in 32-bit steps:                    *)
(*   2 * c        =  88419.41282883...                                     *)
(*   2 * 0.85 * c =  75156.50090450...                                     *)
(*   2 * 1.15 * c = 101682.32475315...                                     *)
(***************************************************************************)
floorOfProduct(rate, w, hi, lo) ==
  rate * w + (rate * hi + (rate * lo) \div 10000) \div 10000

calculateLineSpeed(productionRate, od, gauge, material) ==
  LET density == getMaterialDensity(material)
      P == od * gauge * density
  IN  [ min |-> (floorOfProduct(productionRate, 75156, 5009, 450) + P) \div (2 * P),
        max |-> (floorOfProduct(productionRate, 101682, 3247, 5315) + P) \div (2 * P),
        recommended |->
          (floorOfProduct(productionRate, 88419, 4128, 2883) + P) \div (2 * P) ]

\* The largest n in lo .. hi with (2n - 1)^2 <= k: Math.round(x) for 4x^2 = k.
RECURSIVE roundOfHalfRoot(_, _, _)
roundOfHalfRoot(k, lo, hi) ==
  IF lo >= hi THEN lo
  ELSE LET mid == (lo + hi + 1) \div 2
       IN  IF (2 * mid - 1) * (2 * mid - 1) <= k
             THEN roundOfHalfRoot(k, mid, hi)
             ELSE roundOfHalfRoot(k, lo, mid - 1)

\* A variant of calculateMeltPressure that rounds the scaled pressure without
\* clamping it into the material's range.
calculateMeltPressureUnclamped(materials, productionRate, material) ==
  LET materialProps == getMaterial(materials, material)
      min == materialProps.meltPressureRange.min
      max == materialProps.meltPressureRange.max
      twentieth == (min + max) \div 20
      fourTargetSquared == twentieth * twentieth * 2 * productionRate
  IN  [ min |-> min, max |-> max,
        target |-> roundOfHalfRoot(fourTargetSquared, 0, 3 * max) ]

(***************************************************************************)
(* calculateMeltPressure.  targetPressure = midPressure * sqrt(rate / 200), *)
(* so (2 * targetPressure)^2 = (min + max)^2 * rate / 200, which is         *)
(* fourTargetSquared below (min + max is a multiple of 20 in every          *)
(* material).  The clamp and Math.round compare squares.                   *)
(***************************************************************************)
calculateMeltPressure(materials, productionRate, material) ==
  LET materialProps == getMaterial(materials, material)
      min == materialProps.meltPressureRange.min
      max == materialProps.meltPressureRange.max
      twentieth == (min + max) \div 20
      fourTargetSquared == twentieth * twentieth * 2 * productionRate
      clampedTarget ==
        IF fourTargetSquared >= 4 * max * max THEN max
        ELSE IF fourTargetSquared <= 4 * min * min THEN min
        ELSE roundOfHalfRoot(fourTargetSquared, min, max)
  IN  [ min |-> min, max |-> max, target |-> clampedTarget ]

\* A variant of calculateAirRing that names IBC from a cooling load of 4000
\* (`coolingLoad < 4000` for the dual-lip band).
calculateAirRingIbcFrom4000(productionRate, material, od) ==
  LET coolingLoad == productionRate * od
  IN  [ lipGap |->
          IF productionRate < 150 THEN "0.030-0.040\""
          ELSE IF productionRate < 300 THEN "0.040-0.060\""
          ELSE "0.060-0.080\"",
        airVelocity |->
          IF material = "HDPE" THEN "High (fast crystallization)"
          ELSE IF material = "EVOH" THEN "Moderate (prevent rapid quench)"
          ELSE "Medium-High",
        coolingCapacity |->
          IF coolingLoad < 2000 THEN "Standard single-lip"
          ELSE IF coolingLoad < 4000 THEN "Dual-lip recommended"
          ELSE "Dual-lip with IBC recommended" ]

calculateAirRing(productionRate, material, od) ==
  LET coolingLoad == productionRate * od
  IN  [ lipGap |->
          IF productionRate < 150 THEN "0.030-0.040\""
          ELSE IF productionRate < 300 THEN "0.040-0.060\""
          ELSE "0.060-0.080\"",
        airVelocity |->
          IF material = "HDPE" THEN "High (fast crystallization)"
          ELSE IF material = "EVOH" THEN "Moderate (prevent rapid quench)"
          ELSE "Medium-High",
        coolingCapacity |->
          IF coolingLoad < 2000 THEN "Standard single-lip"
          ELSE IF coolingLoad < 5000 THEN "Dual-lip recommended"
          ELSE "Dual-lip with IBC recommended" ]

\* Math.round of x / 200 for x >= 0.
roundOf200ths(x) == (x + 100) \div 200

(***************************************************************************)
(* calculateFrostLine.  baseFactor and rateAdjustment are in tenths and the *)
(* multipliers 3, 6 and 4.5 in halves, so a height is a whole number of     *)
(* 200ths until rounded.                                                   *)
(***************************************************************************)
calculateFrostLine(materials, targetOD, material, productionRate) ==
  LET materialProps == getMaterial(materials, material)
      dieSize == getDieSize(targetOD)
      baseFactor == materialProps.frostLineHeightFactor
      rateAdjustment ==
        IF productionRate > 300 THEN 11
        ELSE IF productionRate < 100 THEN 9
        ELSE 10
      minHeight == roundOf200ths(dieSize * 6 * baseFactor * rateAdjustment)
      maxHeight == roundOf200ths(dieSize * 12 * baseFactor * rateAdjustment)
      optimalHeight == roundOf200ths(dieSize * 9 * baseFactor * rateAdjustment)
  IN  [ heightRange |->
          ToString(minHeight) \o "-" \o ToString(maxHeight)
            \o "\" (optimal: ~" \o ToString(optimalHeight) \o "\")",
        heightInches |-> [ min |-> minHeight, max |-> maxHeight ],
        notes |->
          IF material = "HDPE"
            THEN "HDPE requires higher frost line for proper crystallinity development"
          ELSE IF material = "EVOH"
            THEN "EVOH sensitive to frost line - maintain consistent height for barrier properties"
          ELSE IF material = "LLDPE"
            THEN "LLDPE tolerates wider frost line range than HDPE"
          ELSE "LDPE very forgiving - frost line height less critical" ]

\* calculateNipRollers; gauge is in hundredths of a mil.
calculateNipRollers(lineSpeed, gauge, material) ==
  [ speed |->
      "Match line speed (" \o ToString(lineSpeed.recommended)
        \o " ft/min) with 1-3% draw",
    pressure |->
      IF gauge < 100 THEN "Light (15-25 PSI) - thin gauge sensitive to crushing"
      ELSE IF gauge < 300 THEN "Medium (25-40 PSI) - standard operating range"
      ELSE "Medium-High (35-50 PSI) - heavier gauge needs more nip force",
    temperature |->
      IF material = "HDPE" THEN "Ambient to 80°F - avoid heating crystalline film"
      ELSE IF material = "EVOH" THEN "Ambient (60-75°F) - prevent moisture pickup"
      ELSE "Ambient to 100°F - slight warming can improve layflat" ]

\* calculateIBC; gauge is in hundredths of a mil.
\* A variant of calculateIBC whose thresholds are inclusive (`>= 4000`, `>= 3`).
calculateIBCAtLimit(productionRate, targetOD, gauge, material) ==
  LET coolingLoad == productionRate * targetOD
      isHeavyGauge == gauge >= 300
      isHighOutput == productionRate > 250
      recommended == coolingLoad >= 4000 \/ (isHeavyGauge /\ isHighOutput)
  IN  IF ~recommended
        THEN [ recommended |-> recommended,
               airFlow |-> "Not required for this application",
               notes |-> "External air ring cooling sufficient for current parameters" ]
      ELSE IF material = "HDPE"
        THEN [ recommended |-> recommended,
               airFlow |-> "High flow rate (match or exceed external cooling)",
               notes |-> "HDPE benefits significantly from IBC - improves output capacity 20-40%" ]
      ELSE IF material = "EVOH"
        THEN [ recommended |-> recommended,
               airFlow |-> "Moderate flow - balanced with external cooling",
               notes |-> "IBC helps maintain uniform cooling for consistent barrier properties" ]
      ELSE [ recommended |-> recommended,
             airFlow |-> "Medium-High flow rate",
             notes |-> "IBC enables higher output rates and improved gauge uniformity" ]

calculateIBC(productionRate, targetOD, gauge, material) ==
  LET coolingLoad == productionRate * targetOD
      isHeavyGauge == gauge > 300
      isHighOutput == productionRate > 250
      recommended == coolingLoad > 4000 \/ (isHeavyGauge /\ isHighOutput)
  IN  IF ~recommended
        THEN [ recommended |-> recommended,
               airFlow |-> "Not required for this application",
               notes |-> "External air ring cooling sufficient for current parameters" ]
      ELSE IF material = "HDPE"
        THEN [ recommended |-> recommended,
               airFlow |-> "High flow rate (match or exceed external cooling)",
               notes |-> "HDPE benefits significantly from IBC - improves output capacity 20-40%" ]
      ELSE IF material = "EVOH"
        THEN [ recommended |-> recommended,
               airFlow |-> "Moderate flow - balanced with external cooling",
               notes |-> "IBC helps maintain uniform cooling for consistent barrier properties" ]
      ELSE [ recommended |-> recommended,
             airFlow |-> "Medium-High flow rate",
             notes |-> "IBC enables higher output rates and improved gauge uniformity" ]

(***************************************************************************)
(* The die gap text of calculateGaugeControl.  estimatedDieGap = gauge * 15 *)
(* is 15 * g / 100 for a gauge of g hundredths, and toFixed rounds the      *)
(* double to the nearest, a tie going up.  The quotient is a decimal tie    *)
(* exactly when 15 * g leaves 50 modulo 100 (g = 10, 30, 50, ...); there    *)
(* the double computed by the code is either the tie itself or its          *)
(* neighbour below, and which one is a fact of IEEE-754 arithmetic,         *)
(* tabulated here for every gauge up to 100 mil (five times the largest    *)
(* gauge the form's field offers):                                         *)
(*   DieGapBelowTie: gauge * 15 is below the tie (4.1 * 15 is               *)
(*     61.49999999999999);                                                 *)
(*   DieGapInchesBelowTie: estimatedDieGap / 1000 is below the tie          *)
(*     (22.5 / 1000 is 0.02249999999999999...).                            *)
(***************************************************************************)
DieGapBelowTie ==
  { 410, 1690, 3230, 3330, 6410, 6510, 6610, 6710, 6810 }

DieGapInchesBelowTie ==
  { 30, 50, 90, 130, 150, 170, 250, 290, 310, 350, 410, 470, 490, 510,
    590, 610, 690, 710, 790, 810, 950, 970, 990, 1010, 1030, 1150, 1170,
    1190, 1210, 1230, 1370, 1390, 1410, 1430, 1450, 1570, 1590, 1630,
    1650, 1690, 1890, 1910, 1930, 1950, 1970, 1990, 2010, 2030, 2050,
    2070, 2310, 2330, 2350, 2370, 2390, 2410, 2430, 2450, 2470, 2490,
    2710, 2730, 2750, 2770, 2790, 2810, 2830, 2850, 2870, 2890, 2910,
    3130, 3150, 3170, 3190, 3210, 3230, 3250, 3290, 3310, 3330, 3350,
    3390, 3410, 3430, 3450, 3470, 3490, 3510, 3530, 3550, 3570, 3590,
    3610, 3630, 3650, 3670, 3690, 3710, 3730, 4170, 4190, 4210, 4230,
    4250, 4270, 4290, 4310, 4330, 4350, 4370, 4390, 4410, 4430, 4450,
    4470, 4490, 4510, 4530, 4550, 4570, 5010, 5030, 5050, 5070, 5090,
    5110, 5130, 5150, 5170, 5190, 5210, 5230, 5250, 5270, 5290, 5310,
    5330, 5350, 5370, 5390, 5410, 5850, 5870, 5890, 5910, 5930, 5950,
    5970, 5990, 6010, 6030, 6050, 6070, 6090, 6110, 6130, 6150, 6170,
    6190, 6210, 6230, 6410, 6510, 6610, 6670, 6710, 6750, 6810, 6830,
    6870, 6910, 6950, 6990, 7030, 7070, 7090, 7130, 7170, 7210, 7250,
    7290, 7330, 7370, 7410, 7450, 7490, 7530, 7570, 7610, 7650, 7690,
    7730, 7770, 7810, 7850, 7890, 7950, 7990, 8030, 8070, 8110, 8150,
    8190, 8230, 8270, 8310, 8350, 8390, 8430, 8470, 8510, 8550, 8590,
    8630, 8670, 8710, 8770, 8810, 8850, 8890, 8930, 8970, 9010, 9050,
    9090, 9130, 9170, 9210, 9250, 9290, 9330, 9370, 9410, 9450, 9490,
    9530, 9570, 9590, 9630, 9670, 9710, 9750, 9790, 9830, 9870, 9910,
    9950, 9990 }

\* estimatedDieGap.toFixed(0), as a number.
dieGapMils(gauge) ==
  IF gauge \in DieGapBelowTie THEN (15 * gauge) \div 100
  ELSE (15 * gauge + 50) \div 100

\* (estimatedDieGap / 1000).toFixed(3), as a number of thousandths.
dieGapThousandths(gauge) ==
  IF gauge \in DieGapInchesBelowTie THEN (15 * gauge) \div 100
  ELSE (15 * gauge + 50) \div 100

\* Number.prototype.toFixed(3) of a value given in thousandths.
toFixed3(thousandths) ==
  ToString(thousandths \div 1000) \o "."
    \o ToString((thousandths % 1000) \div 100)
    \o ToString((thousandths % 100) \div 10)
    \o ToString(thousandths % 10)

\* calculateGaugeControl; gauge is in hundredths of a mil.
calculateGaugeControl(gauge, targetOD, material) ==
  LET dieSize == getDieSize(targetOD)
  IN  [ targetVariation |->
          IF gauge < 100 THEN "±5% (tight control required for thin gauge)"
          ELSE IF gauge < 300 THEN "±5-7% (standard tolerance)"
          ELSE "±7-10% (relaxed tolerance acceptable)",
        dieGapSetting |->
          "~" \o ToString(dieGapMils(gauge)) \o " mils ("
            \o toFixed3(dieGapThousandths(gauge)) \o "\")",
        recommendations |->
          << "Measure gauge at minimum 8 points around circumference",
             "Use automatic gauge control (AGC) if available",
             "Verify die gap uniformity (target ±0.001\" on "
               \o ToString(dieSize) \o "\" die)" >>
          \o (IF material = "HDPE"
                THEN << "HDPE gauge sensitive to cooling - balance air ring first" >>
                ELSE << >>)
          \o (IF gauge < 100
                THEN << "Thin gauge: small die adjustments have large effect" >>
                ELSE << >>) ]

\* A variant of stabilityScore whose gauge thresholds are inclusive (`<=`).
stabilityScoreGaugeInclusive(inputs, bur) ==
  100
    - (IF bur > 420 THEN 20 ELSE IF bur < 240 THEN 10 ELSE 0)
    - (IF inputs.targetGauge <= 75 THEN 25 ELSE IF inputs.targetGauge <= 150 THEN 10 ELSE 0)
    - (IF inputs.productionRate > 400 THEN 15 ELSE 0)
    - (IF inputs.material = "LLDPE" THEN 5
       ELSE IF inputs.material = "LDPE" THEN 0
       ELSE IF inputs.material = "HDPE" THEN 10
       ELSE IF inputs.material = "EVOH" THEN 15
       ELSE 0)
    - (IF inputs.targetOD > 40 THEN 10 ELSE 0)

\* The deductions of assessBubbleStability; bur is in units of 1/120 and
\* targetGauge in hundredths of a mil.
stabilityScore(inputs, bur) ==
  100
    - (IF bur > 420 THEN 20 ELSE IF bur < 240 THEN 10 ELSE 0)
    - (IF inputs.targetGauge < 75 THEN 25 ELSE IF inputs.targetGauge < 150 THEN 10 ELSE 0)
    - (IF inputs.productionRate > 400 THEN 15 ELSE 0)
    - (IF inputs.material = "LLDPE" THEN 5
       ELSE IF inputs.material = "LDPE" THEN 0
       ELSE IF inputs.material = "HDPE" THEN 10
       ELSE IF inputs.material = "EVOH" THEN 15
       ELSE 0)
    - (IF inputs.targetOD > 40 THEN 10 ELSE 0)

assessBubbleStability(inputs, bur) ==
  LET score == stabilityScore(inputs, bur)
      factors ==
        (IF bur > 420 THEN << "High BUR increases bubble sensitivity" >>
         ELSE IF bur < 240 THEN << "Low BUR may cause MD/TD imbalance" >>
         ELSE << >>)
        \o (IF inputs.targetGauge < 75
              THEN << "Very thin gauge highly sensitive to disturbances" >>
            ELSE IF inputs.targetGauge < 150 THEN << "Thin gauge moderately sensitive" >>
            ELSE << >>)
        \o (IF inputs.productionRate > 400
              THEN << "High output rate can challenge stability" >>
              ELSE << >>)
        \o (IF inputs.material = "LLDPE"
              THEN << "LLDPE has higher melt strength - generally stable" >>
            ELSE IF inputs.material = "LDPE" THEN << "LDPE excellent bubble stability" >>
            ELSE IF inputs.material = "HDPE"
              THEN << "HDPE lower melt strength - monitor closely" >>
            ELSE IF inputs.material = "EVOH"
              THEN << "EVOH narrow processing window affects stability" >>
            ELSE << >>)
        \o (IF inputs.targetOD > 40
              THEN << "Large bubble diameter more prone to oscillation" >>
              ELSE << >>)
      recommendations ==
        (IF bur > 420 THEN << "Ensure uniform air ring cooling at high BUR" >> ELSE << >>)
        \o (IF inputs.targetGauge < 75
              THEN << "Minimize drafts and air currents around tower",
                      "Consider bubble cage or guide system" >>
              ELSE << >>)
        \o (IF inputs.productionRate > 400
              THEN << "Verify adequate cooling capacity" >>
              ELSE << >>)
        \o (IF inputs.material = "HDPE" THEN << "Maintain consistent melt temperature" >>
            ELSE IF inputs.material = "EVOH" THEN << "Precise temperature control essential" >>
            ELSE << >>)
        \o (IF inputs.targetOD > 40 THEN << "Consider IBC for improved stability" >> ELSE << >>)
        \o << "Maintain steady extruder output (consistent melt pressure)" >>
  IN  [ rating |->
          IF score >= 75 THEN "stable"
          ELSE IF score >= 50 THEN "moderate"
          ELSE "challenging",
        factors |-> factors,
        recommendations |-> recommendations ]

\* A variant of confidenceScore without the material deduction.
confidenceScoreNoMaterial(inputs) ==
  100
    - (IF inputs.productionRate < 50 THEN 20 ELSE 0)
    - (IF inputs.productionRate > 500 THEN 15 ELSE 0)
    - (IF inputs.targetGauge < 50 THEN 25 ELSE 0)
    - (IF inputs.targetGauge > 1000 THEN 15 ELSE 0)
    - (IF inputs.targetOD < 5 THEN 10 ELSE 0)
    - (IF inputs.targetOD > 60 THEN 10 ELSE 0)

\* A variant of confidenceScore that adds the 15 points of a production rate
\* above 500 instead of subtracting them (`score += 15`).
confidenceScoreHighRateBonus(inputs) ==
  100
    - (IF inputs.productionRate < 50 THEN 20 ELSE 0)
    + (IF inputs.productionRate > 500 THEN 15 ELSE 0)
    - (IF inputs.targetGauge < 50 THEN 25 ELSE 0)
    - (IF inputs.targetGauge > 1000 THEN 15 ELSE 0)
    - (IF inputs.targetOD < 5 THEN 10 ELSE 0)
    - (IF inputs.targetOD > 60 THEN 10 ELSE 0)
    - (IF inputs.material = "EVOH" THEN 10 ELSE 0)

\* The deductions of assessConfidence; targetGauge is in hundredths of a mil.
confidenceScore(inputs) ==
  100
    - (IF inputs.productionRate < 50 THEN 20 ELSE 0)
    - (IF inputs.productionRate > 500 THEN 15 ELSE 0)
    - (IF inputs.targetGauge < 50 THEN 25 ELSE 0)
    - (IF inputs.targetGauge > 1000 THEN 15 ELSE 0)
    - (IF inputs.targetOD < 5 THEN 10 ELSE 0)
    - (IF inputs.targetOD > 60 THEN 10 ELSE 0)
    - (IF inputs.material = "EVOH" THEN 10 ELSE 0)

assessConfidence(inputs) ==
  LET score == confidenceScore(inputs)
      reasons ==
        (IF inputs.productionRate < 50
           THEN << "Low production rate may require special considerations" >>
           ELSE << >>)
        \o (IF inputs.productionRate > 500
              THEN << "High production rate - verify equipment capacity" >>
              ELSE << >>)
        \o (IF inputs.targetGauge < 50
              THEN << "Very thin gauge - process stability may be challenging" >>
              ELSE << >>)
        \o (IF inputs.targetGauge > 1000
              THEN << "Heavy gauge - monitor cooling capacity" >>
              ELSE << >>)
        \o (IF inputs.targetOD < 5 THEN << "Small diameter - BUR may be limited" >> ELSE << >>)
        \o (IF inputs.targetOD > 60
              THEN << "Large diameter - ensure adequate die size" >>
              ELSE << >>)
        \o (IF inputs.material = "EVOH"
              THEN << "EVOH requires careful moisture control" >>
              ELSE << >>)
  IN  [ level |->
          IF score >= 80 THEN "high" ELSE IF score >= 60 THEN "medium" ELSE "low",
        reasons |-> reasons ]

identifyCriticalParameters(inputs) ==
  (IF inputs.material = "EVOH"
     THEN << "Material drying (target <0.05% moisture)",
             "Die temperature uniformity (±5°F)" >>
     ELSE << >>)
  \o (IF inputs.material = "HDPE"
        THEN << "Melt temperature control (melt fracture prevention)",
                "Cooling rate (crystallinity control)" >>
        ELSE << >>)
  \o (IF inputs.targetGauge < 100
        THEN << "Bubble stability (thin gauge sensitivity)", "Line speed consistency" >>
        ELSE << >>)
  \o (IF inputs.productionRate > 300
        THEN << "Melt pressure monitoring", "Adequate cooling capacity" >>
        ELSE << >>)
  \o << "Die gap uniformity for gauge control", "Frost line height consistency" >>

\* A variant of barrelTemps whose offset starts at 300 lb/hr (`>= 300`) and
\* is added to the feed zone as well.
barrelTempsOffsetFrom300(materialProps, productionRate) ==
  LET tempOffset == IF productionRate >= 300 THEN 10 ELSE 0
  IN  [ feed |-> materialProps.barrelTemperatures.feed.recommended + tempOffset,
        compression |-> materialProps.barrelTemperatures.compression.recommended + tempOffset,
        metering |-> materialProps.barrelTemperatures.metering.recommended + tempOffset,
        die |-> materialProps.barrelTemperatures.die.recommended + tempOffset ]

\* A variant of barrelTemps with an offset of 25 degrees above 300 lb/hr.
barrelTempsOffset25(materialProps, productionRate) ==
  LET tempOffset == IF productionRate > 300 THEN 25 ELSE 0
  IN  [ feed |-> materialProps.barrelTemperatures.feed.recommended,
        compression |-> materialProps.barrelTemperatures.compression.recommended + tempOffset,
        metering |-> materialProps.barrelTemperatures.metering.recommended + tempOffset,
        die |-> materialProps.barrelTemperatures.die.recommended + tempOffset ]

\* The barrelTemps object literal of optimizeParameters.
barrelTemps(materialProps, productionRate) ==
  LET tempOffset == IF productionRate > 300 THEN 10 ELSE 0
  IN  [ feed |-> materialProps.barrelTemperatures.feed.recommended,
        compression |-> materialProps.barrelTemperatures.compression.recommended + tempOffset,
        metering |-> materialProps.barrelTemperatures.metering.recommended + tempOffset,
        die |-> materialProps.barrelTemperatures.die.recommended + tempOffset ]

(***************************************************************************)
(* "Build notes" and "Add layflat info" of optimizeParameters:             *)
(*   const notes = [...materialProps.notes];                               *)
(*   notes.push(...confidenceResult.reasons);  notes.unshift(layflat note) *)
(* The spread makes a new array, so push and unshift act on the copy and   *)
(* the material's own notes array is left as it is.  The operator returns  *)
(* the notes of the result and the material table as the code leaves it.   *)
(***************************************************************************)
\* A variant of buildNotes without the spread (`const notes = materialProps.notes`):
\* push and unshift then act on the material's own array.
buildNotesInPlace(materials, inputs, reasons) ==
  LET notes ==
        << layflatNote(inputs.targetOD) >>
          \o getMaterial(materials, inputs.material).notes \o reasons
  IN  [ notes |-> notes,
        materials |-> [ materials EXCEPT ![inputs.material].notes = notes ] ]

\* A variant of buildNotes that pushes the layflat note instead of
\* unshifting it (the note comes last).
buildNotesLayflatLast(materials, inputs, reasons) ==
  [ notes |->
      getMaterial(materials, inputs.material).notes \o reasons
        \o << layflatNote(inputs.targetOD) >>,
    materials |-> materials ]

buildNotes(materials, inputs, reasons) ==
  [ notes |->
      << layflatNote(inputs.targetOD) >>
        \o getMaterial(materials, inputs.material).notes \o reasons,
    materials |-> materials ]

\* The fields optimizeParameters computes and returns, given the notes it built.
recommendedSettings(materials, inputs, notes) ==
  LET materialProps == getMaterial(materials, inputs.material)
      lineSpeed ==
        calculateLineSpeed(inputs.productionRate, inputs.targetOD,
                           inputs.targetGauge, inputs.material)
      blowUpRatio == calculateBUR(materials, inputs.targetOD, inputs.material)
  IN  [ barrelTemps |-> barrelTemps(materialProps, inputs.productionRate),
        screwSpeed |->
          calculateScrewSpeed(materials, inputs.productionRate, inputs.material),
        lineSpeed |-> lineSpeed,
        meltPressure |->
          calculateMeltPressure(materials, inputs.productionRate, inputs.material),
        airRing |->
          calculateAirRing(inputs.productionRate, inputs.material, inputs.targetOD),
        blowUpRatio |-> blowUpRatio,
        frostLine |->
          calculateFrostLine(materials, inputs.targetOD, inputs.material,
                             inputs.productionRate),
        nipRollers |->
          calculateNipRollers(lineSpeed, inputs.targetGauge, inputs.material),
        ibc |->
          calculateIBC(inputs.productionRate, inputs.targetOD,
                       inputs.targetGauge, inputs.material),
        gaugeControl |->
          calculateGaugeControl(inputs.targetGauge, inputs.targetOD, inputs.material),
        bubbleStability |-> assessBubbleStability(inputs, blowUpRatio),
        confidence |-> assessConfidence(inputs).level,
        notes |-> notes,
        criticalParameters |-> identifyCriticalParameters(inputs) ]

\* A variant of optimizeParameters that adds tempOffset to the material's
\* recommended temperatures in place (`recommended += tempOffset`).
optimizeParametersOffsetInPlace(materials, inputs) ==
  LET built == buildNotes(materials, inputs, assessConfidence(inputs).reasons)
      tempOffset == IF inputs.productionRate > 300 THEN 10 ELSE 0
  IN  [ result |-> recommendedSettings(materials, inputs, built.notes),
        materials |->
          [ built.materials EXCEPT
              ![inputs.material].barrelTemperatures.compression.recommended = @ + tempOffset,
              ![inputs.material].barrelTemperatures.metering.recommended = @ + tempOffset,
              ![inputs.material].barrelTemperatures.die.recommended = @ + tempOffset ] ]

\* optimizeParameters: the returned RecommendedSettings and the material table
\* as the call leaves it.
optimizeParameters(materials, inputs) ==
  LET built == buildNotes(materials, inputs, assessConfidence(inputs).reasons)
  IN  [ result |-> recommendedSettings(materials, inputs, built.notes),
        materials |-> built.materials ]

(***************************************************************************)
(* The requests the exploration draws from.                                *)
(*   MeltTemps: 340 is LDPE's meltTempRange.min (not low for LDPE, low for *)
(*     the others); 450 is LDPE's max (high for EVOH only).                *)
(*   DieTemps: 390 is the die-zone min of LLDPE and EVOH (low for HDPE     *)
(*     only); 450 is above the die-zone max of LDPE and EVOH.              *)
(*   ScrewSpeeds: 72 is exactly 0.9 * 80 (EVOH); 120 is above 90% of the   *)
(*     max of HDPE, LLDPE and EVOH and below LDPE's.                       *)
(***************************************************************************)
MeltTemps == { 340, 450 }

DieTemps == { 390, 450 }

ScrewSpeeds == { 72, 120 }

LineSpeeds == { 100 }

DiagnoseRequests ==
  [ material : MaterialTypes,
    defect : DefectTypes,
    currentSettings :
      [ meltTemp : MeltTemps, screwSpeed : ScrewSpeeds,
        lineSpeed : LineSpeeds, dieTemp : DieTemps ] ]

(***************************************************************************)
(* Optimize requests.  targetGauge is in hundredths of a mil.              *)
(*   OptimizeRequests: the few requests that interleave with diagnoses.    *)
(*   SweepRequests: every whole targetOD up to MaxOD, and gauges and rates *)
(*     on both sides of every threshold the optimizer compares them to.    *)
(***************************************************************************)
OptimizeRequests ==
  [ material : MaterialTypes,
    targetOD : { 8, 20, 61 },
    targetGauge : { 40, 150 },
    productionRate : { 40, 200, 600 } ]

Gauges == { 40, 50, 74, 75, 100, 150, 300, 301, 1001 }

Rates ==
  { 40, 50, 99, 100, 149, 150, 152, 200, 250, 251,
    300, 301, 350, 400, 401, 500, 501, 600, 610, 800 }

SweepRequests ==
  [ material : MaterialTypes,
    targetOD : 1 .. MaxOD,
    targetGauge : Gauges,
    productionRate : Rates ]

NoInputs == [ material |-> "none" ]

NoResult == [ defect |-> "none" ]

\* The state a form is mounted with: its useState initial values.
OptimizeModeInitial ==
  [ inputs |->
      [ material |-> "LDPE", targetOD |-> 20, targetGauge |-> 150,
        productionRate |-> 200 ],
    results |-> NoResult ]

DiagnoseModeInitial ==
  [ inputs |->
      [ material |-> "LDPE",
        currentSettings |->
          [ meltTemp |-> 390, screwSpeed |-> 60, lineSpeed |-> 100,
            dieTemp |-> 400 ],
        defect |-> "melt_fracture" ],
    results |-> NoResult ]

Init ==
  /\ MATERIALS = MaterialsAtStartup
  /\ DEFECT_DATABASE = DefectDatabaseAtStartup
  /\ diagnoseCalls = 0
  /\ lastKind = "none"
  /\ lastInputs = NoInputs
  /\ lastResult = NoResult
  /\ mode = "optimize"
  /\ formInputs = OptimizeModeInitial.inputs
  /\ results = OptimizeModeInitial.results

\* One call of diagnoseDefect(inputs): the table is left as the call leaves it
\* and the caller holds the returned value.
Diagnose ==
  /\ lastKind = "none"
  /\ diagnoseCalls < MaxDiagnoseCalls
  /\ \E inputs \in DiagnoseRequests :
       \E out \in { diagnoseDefect(DEFECT_DATABASE, MATERIALS, inputs) } :
         /\ DEFECT_DATABASE' = out.database
         /\ lastKind' = "diagnose"
         /\ lastInputs' = inputs
         /\ lastResult' = out.result
  /\ diagnoseCalls' = diagnoseCalls + 1
  /\ UNCHANGED << MATERIALS, mode, formInputs, results >>

\* One call of optimizeParameters(inputs), inputs drawn from `requests`.
OptimizeCall(requests) ==
  /\ lastKind = "none"
  /\ \E inputs \in requests :
       \E out \in { optimizeParameters(MATERIALS, inputs) } :
         /\ MATERIALS' = out.materials
         /\ lastKind' = "optimize"
         /\ lastInputs' = inputs
         /\ lastResult' = out.result
  /\ UNCHANGED << DEFECT_DATABASE, diagnoseCalls, mode, formInputs, results >>

Optimize == OptimizeCall(OptimizeRequests)

OptimizeSweep == OptimizeCall(SweepRequests)

\* The caller is done with the returned value; the engine keeps nothing of it.
Return ==
  /\ lastKind # "none"
  /\ lastKind' = "none"
  /\ lastInputs' = NoInputs
  /\ lastResult' = NoResult
  /\ UNCHANGED << MATERIALS, DEFECT_DATABASE, diagnoseCalls, mode, formInputs, results >>

\* Codes outside the enumerations, as a caller that bypasses the type checker
\* (plain JavaScript, a cast, stored data) can pass them.
UnknownMaterialCodes == { "PVC", "hdpe", "constructor", "__proto__" }

UnknownDefectCodes == { "fish_eyes", "Melt Fracture", "toString", "__proto__" }

\* One call of getMaterial(code).
GetMaterial ==
  /\ lastKind = "none"
  /\ \E code \in MaterialTypes \cup UnknownMaterialCodes :
       /\ lastKind' = "getMaterial"
       /\ lastInputs' = [ code |-> code ]
       /\ lastResult' = Returns(getMaterial(MATERIALS, code))
  /\ UNCHANGED << MATERIALS, DEFECT_DATABASE, diagnoseCalls, mode, formInputs, results >>

\* One call of getDefectInfo(code).
GetDefectInfo ==
  /\ lastKind = "none"
  /\ \E code \in DefectTypes \cup UnknownDefectCodes :
       /\ lastKind' = "getDefectInfo"
       /\ lastInputs' = [ code |-> code ]
       /\ lastResult' = Returns(getDefectInfo(DEFECT_DATABASE, code))
  /\ UNCHANGED << MATERIALS, DEFECT_DATABASE, diagnoseCalls, mode, formInputs, results >>

\* One call of getDefectDisplayName(code).
GetDefectDisplayName ==
  /\ lastKind = "none"
  /\ \E code \in DefectTypes \cup UnknownDefectCodes :
       /\ lastKind' = "getDefectDisplayName"
       /\ lastInputs' = [ code |-> code ]
       /\ lastResult' = getDefectDisplayName(DEFECT_DATABASE, code)
  /\ UNCHANGED << MATERIALS, DEFECT_DATABASE, diagnoseCalls, mode, formInputs, results >>

Next == Optimize \/ Diagnose \/ Return

\* Optimize and diagnose calls in any order.
Spec == Init /\ [][Next]_vars

NextLookup == GetMaterial \/ GetDefectInfo \/ GetDefectDisplayName \/ Diagnose \/ Return

\* Table lookups by code, between diagnose calls.
SpecLookup == Init /\ [][NextLookup]_vars

NextOpt == OptimizeSweep \/ Return

\* Optimize calls over the whole sweep of requests.
SpecOpt == Init /\ [][NextOpt]_vars

(***************************************************************************)
(* The two forms.  A form's state is the pair of its inputs and results    *)
(* useState cells; every handler is a function from that pair to the next  *)
(* pair.  A form is mounted with its initial state and loses its state     *)
(* when App switches to the other mode.                                    *)
(***************************************************************************)

\* OptimizeMode.handleInputChange(field, value).
handleInputChange(state, field, value) ==
  [ inputs |-> [ state.inputs EXCEPT ![field] = value ],
    results |-> NoResult ]

\* DiagnoseMode.updateMaterial(material): meltTemp becomes the middle of the
\* material's melt range (every range of the table has an even width) and
\* dieTemp the recommended die-zone temperature.
updateMaterial(materials, state, material) ==
  LET matProps == getMaterial(materials, material)
  IN  [ inputs |->
          [ state.inputs EXCEPT
              !.material = material,
              !.currentSettings.meltTemp =
                 matProps.meltTempRange.min
                   + (matProps.meltTempRange.max - matProps.meltTempRange.min) \div 2,
              !.currentSettings.dieTemp =
                 matProps.barrelTemperatures.die.recommended ],
        results |-> NoResult ]

\* updateSetting without its setResults(null).
updateSettingKeepsResults(state, field, value) ==
  [ inputs |-> [ state.inputs EXCEPT !.currentSettings[field] = value ],
    results |-> state.results ]

\* DiagnoseMode.updateSetting(field, value).
updateSetting(state, field, value) ==
  [ inputs |-> [ state.inputs EXCEPT !.currentSettings[field] = value ],
    results |-> NoResult ]

\* The onChange handler of DiagnoseMode's defect select.
onDefectChange(state, defect) ==
  [ inputs |-> [ state.inputs EXCEPT !.defect = defect ],
    results |-> NoResult ]

\* What the user types or selects in the forms.
OptimizeFieldChanges ==
  { << "material", m >> : m \in MaterialTypes }
    \cup { << "targetOD", 8 >>, << "targetOD", 20 >>, << "targetOD", 61 >>,
           << "targetGauge", 40 >>, << "targetGauge", 1150 >>,
           << "productionRate", 600 >> }

SettingChanges ==
  { << "meltTemp", 340 >>, << "screwSpeed", 120 >>, << "dieTemp", 390 >>,
    << "lineSpeed", 150 >> }

SelectableDefects == { "melt_fracture", "voids_bubbles" }

FormState == [ inputs |-> formInputs, results |-> results ]

\* React commits a handler's setInputs and setResults together.  A result
\* that is no longer in the results cell is held by nobody.
Commit(next) ==
  /\ formInputs' = next.inputs
  /\ results' = next.results
  /\ IF next.results = NoResult
       THEN /\ lastKind' = "none"
            /\ lastInputs' = NoInputs
            /\ lastResult' = NoResult
       ELSE UNCHANGED << lastKind, lastInputs, lastResult >>
  /\ UNCHANGED << MATERIALS, DEFECT_DATABASE, diagnoseCalls, mode >>

HandleInputChange ==
  /\ mode = "optimize"
  /\ \E change \in OptimizeFieldChanges :
       Commit(handleInputChange(FormState, change[1], change[2]))

UpdateMaterial ==
  /\ mode = "diagnose"
  /\ \E material \in MaterialTypes :
       Commit(updateMaterial(MATERIALS, FormState, material))

UpdateSetting ==
  /\ mode = "diagnose"
  /\ \E change \in SettingChanges :
       Commit(updateSetting(FormState, change[1], change[2]))

OnDefectChange ==
  /\ mode = "diagnose"
  /\ \E defect \in SelectableDefects :
       Commit(onDefectChange(FormState, defect))

\* OptimizeMode.handleSubmit: the engine runs on the form's inputs and its
\* return value is stored in results.
HandleSubmitOptimize ==
  /\ mode = "optimize"
  /\ \E out \in { optimizeParameters(MATERIALS, formInputs) } :
       /\ MATERIALS' = out.materials
       /\ results' = out.result
       /\ lastKind' = "optimize"
       /\ lastInputs' = formInputs
       /\ lastResult' = out.result
  /\ UNCHANGED << DEFECT_DATABASE, diagnoseCalls, mode, formInputs >>

\* DiagnoseMode.handleSubmit.
HandleSubmitDiagnose ==
  /\ mode = "diagnose"
  /\ diagnoseCalls < MaxDiagnoseCalls
  /\ \E out \in { diagnoseDefect(DEFECT_DATABASE, MATERIALS, formInputs) } :
       /\ DEFECT_DATABASE' = out.database
       /\ results' = out.result
       /\ lastKind' = "diagnose"
       /\ lastInputs' = formInputs
       /\ lastResult' = out.result
  /\ diagnoseCalls' = diagnoseCalls + 1
  /\ UNCHANGED << MATERIALS, mode, formInputs >>

\* App's mode buttons: the other form is mounted with its initial state and
\* the state of the form that was shown is discarded.
SetMode ==
  /\ \E m \in { "optimize", "diagnose" } :
       /\ m # mode
       /\ mode' = m
       /\ formInputs' = IF m = "optimize" THEN OptimizeModeInitial.inputs
                                          ELSE DiagnoseModeInitial.inputs
       /\ results' = IF m = "optimize" THEN OptimizeModeInitial.results
                                       ELSE DiagnoseModeInitial.results
  /\ lastKind' = "none"
  /\ lastInputs' = NoInputs
  /\ lastResult' = NoResult
  /\ UNCHANGED << MATERIALS, DEFECT_DATABASE, diagnoseCalls >>

NextUI ==
  \/ HandleInputChange
  \/ HandleSubmitOptimize
  \/ UpdateMaterial
  \/ UpdateSetting
  \/ OnDefectChange
  \/ HandleSubmitDiagnose
  \/ SetMode

\* The user at the application: typing, selecting, submitting, switching mode.
SpecUI == Init /\ [][NextUI]_vars

(***************************************************************************)
(* Properties.  A property about "the result" is stated of the call that   *)
(* has just returned (lastKind, lastInputs, lastResult); "the table" is    *)
(* the table as loaded, DefectDatabaseAtStartup and MaterialsAtStartup.    *)
(***************************************************************************)

\* The defect's cause list as written in the table.
TableCauses(defect) == DefectDatabaseAtStartup[defect].causes

\* Where a label stands in the defect's table cause list.
TablePosition(defect, label) ==
  CHOOSE k \in 1 .. Len(TableCauses(defect)) : TableCauses(defect)[k].cause = label

\* The table's entry for a returned cause (labels are unique within a defect).
TableCause(defect, cause) == TableCauses(defect)[TablePosition(defect, cause.cause)]

\* high > medium > low.
TierRank(p) == CASE p = "high" -> 3 [] p = "medium" -> 2 [] p = "low" -> 1

LowTemperatureNote == " [Current settings confirm low temperature condition]"

HighTemperatureNote == " [Current settings confirm high temperature condition]"

ScrewSpeedNote == " [Current screw speed is near upper limit]"

MoistureNote == " [EVOH is hygroscopic - moisture is common issue]"

\* The request's settings are below the material's melt or die-zone minimum.
RequestTemperatureLow(inputs) ==
  \/ inputs.currentSettings.meltTemp < MaterialsAtStartup[inputs.material].meltTempRange.min
  \/ inputs.currentSettings.dieTemp
       < MaterialsAtStartup[inputs.material].barrelTemperatures.die.min

\* The request's settings are above the material's melt or die-zone maximum.
RequestTemperatureHigh(inputs) ==
  \/ inputs.currentSettings.meltTemp > MaterialsAtStartup[inputs.material].meltTempRange.max
  \/ inputs.currentSettings.dieTemp
       > MaterialsAtStartup[inputs.material].barrelTemperatures.die.max

\* The request's screw speed is above 90% of the material's maximum.
RequestScrewSpeedHigh(inputs) ==
  10 * inputs.currentSettings.screwSpeed
    > 9 * MaterialsAtStartup[inputs.material].screwSpeedRange.max

TemperatureLabel(cause) ==
  labelIncludes(cause, "temperature") \/ labelIncludes(cause, "temp")

\* Some escalation rule of section 4.4 fires for this cause on this request.
SomeRuleFires(cause, inputs) ==
  \/ TemperatureLabel(cause) /\ labelIncludes(cause, "low") /\ RequestTemperatureLow(inputs)
  \/ TemperatureLabel(cause) /\ labelIncludes(cause, "high") /\ RequestTemperatureHigh(inputs)
  \/ /\ \/ labelIncludes(cause, "output")
        \/ labelIncludes(cause, "rate")
        \/ labelIncludes(cause, "speed")
     /\ RequestScrewSpeedHigh(inputs)
  \/ labelIncludes(cause, "moisture") /\ inputs.material = "EVOH"

\* C1: diagnoseDefect is idempotent: the call that has just returned, made
\* again at once with the same request, returns a result equal in every field.
C1_DiagnoseIdempotent ==
  lastKind = "diagnose" =>
    diagnoseDefect(DEFECT_DATABASE, MATERIALS, lastInputs).result = lastResult

\* C2: the defect-cause table is never mutated: every cause entry of every
\* defect has the probability, explanation and adjustments it had at startup.
C2_DefectTableNeverMutated ==
  \A d \in DefectTypes :
    \A i \in 1 .. Len(TableCauses(d)) :
      /\ Len(DEFECT_DATABASE[d].causes) = Len(TableCauses(d))
      /\ DEFECT_DATABASE[d].causes[i].probability = TableCauses(d)[i].probability
      /\ DEFECT_DATABASE[d].causes[i].explanation = TableCauses(d)[i].explanation
      /\ DEFECT_DATABASE[d].causes[i].adjustments = TableCauses(d)[i].adjustments

\* C3: diagnosis has no memory across calls: a returned cause has a tier
\* above its table tier, or an explanation other than the table's, only if
\* an escalation rule fires for the current request.
C3_DiagnosisHasNoMemory ==
  lastKind = "diagnose" =>
    \A i \in 1 .. Len(lastResult.causes) :
      LET c == lastResult.causes[i]
          t == TableCause(lastInputs.defect, c)
      IN  (\/ TierRank(c.probability) > TierRank(t.probability)
           \/ c.explanation # t.explanation)
            => SomeRuleFires(c, lastInputs)

\* C4: optimizeParameters is deterministic and history-independent: whatever
\* optimize or diagnose calls came before, the result of a call equals, in
\* every field, the result the same request gets from the tables as loaded
\* (so any two calls with one request return equal results).
C4_OptimizeHistoryIndependent ==
  lastKind = "optimize" =>
    lastResult = optimizeParameters(MaterialsAtStartup, lastInputs).result

\* C4's case: an optimize call that returns after a diagnose call has changed
\* the defect table, for a request that gets confidence reasons in its notes.
C4_Witness ==
  /\ lastKind = "optimize"
  /\ diagnoseCalls > 0
  /\ DEFECT_DATABASE # DefectDatabaseAtStartup
  /\ lastInputs.productionRate > 500
  /\ lastResult.barrelTemps.die
       = MaterialsAtStartup[lastInputs.material].barrelTemperatures.die.recommended + 10

\* C5: the material property table is never mutated: every MaterialProfile
\* (ranges, barrel zones, frost-line factor and the ordered notes list)
\* equals its startup value after any sequence of calls.
C5_MaterialTableNeverMutated == MATERIALS = MaterialsAtStartup

\* C5's case: optimizeParameters has built notes with the layflat note in
\* front of the material's notes and confidence reasons behind them, after
\* diagnoseDefect has been called as well.
C5_Witness ==
  /\ lastKind = "optimize"
  /\ diagnoseCalls > 0
  /\ Len(lastResult.notes) > 1 + Len(MaterialsAtStartup[lastInputs.material].notes)
  /\ lastResult.notes[1] = layflatNote(lastInputs.targetOD)
  /\ lastResult.notes[2] = MaterialsAtStartup[lastInputs.material].notes[1]

\* C6: the screw speed range of every optimize result satisfies
\* screwSpeed.min <= screwSpeed.recommended <= screwSpeed.max.
C6_ScrewSpeedRangeOrdered ==
  lastKind = "optimize" =>
    /\ lastResult.screwSpeed.min <= lastResult.screwSpeed.recommended
    /\ lastResult.screwSpeed.recommended <= lastResult.screwSpeed.max

\* targetOD / dieSize(targetOD) in units of 1/120.
QuotientBUR(targetOD) == (targetOD * 120) \div getDieSize(targetOD)

\* C7: blowUpRatio equals targetOD / dieSize(targetOD) clamped into the
\* material's blowUpRatioRange: the quotient itself when it lies in
\* [min, max], min when below, max when above, and so always within the range.
C7_BlowUpRatioClamped ==
  lastKind = "optimize" =>
    LET q == QuotientBUR(lastInputs.targetOD)
        lo == 12 * MaterialsAtStartup[lastInputs.material].blowUpRatioRange.min
        hi == 12 * MaterialsAtStartup[lastInputs.material].blowUpRatioRange.max
        bur == lastResult.blowUpRatio
    IN  /\ (lo <= q /\ q <= hi) => bur = q
        /\ q < lo => bur = lo
        /\ q > hi => bur = hi
        /\ lo <= bur /\ bur <= hi

\* C7's case: LDPE at targetOD 20 (die 6) returns 20/6, inside [1.5, 3.5].
C7_Witness ==
  /\ lastKind = "optimize"
  /\ lastInputs.material = "LDPE"
  /\ lastInputs.targetOD = 20
  /\ lastResult.blowUpRatio = 400

\* C8: a cause whose label contains "temperature" or "temp" and also "low",
\* on a request whose meltTemp is strictly below the material's
\* meltTempRange.min or whose dieTemp is strictly below the die-zone min, is
\* returned with probability "high" and the low-temperature annotation in
\* its explanation.
C8_LowTemperatureEscalation ==
  lastKind = "diagnose" =>
    \A i \in 1 .. Len(lastResult.causes) :
      LET c == lastResult.causes[i]
      IN  (/\ TemperatureLabel(c)
           /\ labelIncludes(c, "low")
           /\ RequestTemperatureLow(lastInputs))
            => /\ c.probability = "high"
               /\ includes(c.explanation, LowTemperatureNote)

\* C8's case: a low-temperature cause escalated on a request where only the
\* die temperature is low (meltTemp is within the material's range).
C8_Witness ==
  /\ lastKind = "diagnose"
  /\ lastInputs.currentSettings.meltTemp
       >= MaterialsAtStartup[lastInputs.material].meltTempRange.min
  /\ RequestTemperatureLow(lastInputs)
  /\ \E i \in 1 .. Len(lastResult.causes) :
       /\ TemperatureLabel(lastResult.causes[i])
       /\ labelIncludes(lastResult.causes[i], "low")
       /\ lastResult.causes[i].probability = "high"
       /\ includes(lastResult.causes[i].explanation, LowTemperatureNote)

\* C9: re-ranking is stable: two returned causes with the same probability
\* tier stand in the same relative order as in the defect's table cause list.
C9_RerankStable ==
  lastKind = "diagnose" =>
    \A i \in 1 .. Len(lastResult.causes) :
      \A j \in 1 .. Len(lastResult.causes) :
        (i < j /\ lastResult.causes[i].probability = lastResult.causes[j].probability)
          => TablePosition(lastInputs.defect, lastResult.causes[i].cause)
               < TablePosition(lastInputs.defect, lastResult.causes[j].cause)

\* C9's case: a result the re-ranking has reordered (a cause escalated past
\* another), with two causes of one tier in it.
C9_Witness ==
  /\ lastKind = "diagnose"
  /\ \E i \in 1 .. Len(lastResult.causes) :
       lastResult.causes[i].cause # TableCauses(lastInputs.defect)[i].cause
  /\ \E i \in 1 .. Len(lastResult.causes) :
       \E j \in 1 .. Len(lastResult.causes) :
         i < j /\ lastResult.causes[i].probability = lastResult.causes[j].probability

\* C10: on a request with material EVOH, every cause whose label contains
\* "moisture" is returned with probability "high" and with an explanation
\* equal to the table's explanation followed by the one EVOH annotation.
C10_EvohMoistureAnnotatedOnce ==
  (lastKind = "diagnose" /\ lastInputs.material = "EVOH") =>
    \A i \in 1 .. Len(lastResult.causes) :
      LET c == lastResult.causes[i]
      IN  labelIncludes(c, "moisture")
            => /\ c.probability = "high"
               /\ c.explanation
                    = TableCause(lastInputs.defect, c).explanation \o MoistureNote

\* C11: for every material, when productionRate > 300 the result's
\* compression, metering and die barrel temperatures each equal the
\* material's recommended value plus 10 and feed equals the recommended value
\* unchanged; when productionRate <= 300 (exactly 300 included) all four zones
\* equal the material's recommended values.
C11_BarrelTemperatureOffset ==
  lastKind = "optimize" =>
    LET zones == MaterialsAtStartup[lastInputs.material].barrelTemperatures
        temps == lastResult.barrelTemps
    IN  /\ temps.feed = zones.feed.recommended
        /\ lastInputs.productionRate > 300 =>
             /\ temps.compression = zones.compression.recommended + 10
             /\ temps.metering = zones.metering.recommended + 10
             /\ temps.die = zones.die.recommended + 10
        /\ lastInputs.productionRate <= 300 =>
             /\ temps.compression = zones.compression.recommended
             /\ temps.metering = zones.metering.recommended
             /\ temps.die = zones.die.recommended

\* C11's case: scenario D, HDPE at productionRate 350: feed 325 unchanged,
\* compression 390 + 10, metering 430 + 10, die 445 + 10.
C11_Witness ==
  /\ lastKind = "optimize"
  /\ lastInputs.material = "HDPE"
  /\ lastInputs.productionRate = 350
  /\ lastResult.barrelTemps
       = [ feed |-> 325, compression |-> 400, metering |-> 440, die |-> 455 ]

EvohMoistureReason == "EVOH requires careful moisture control"

\* The confidence score the request would get with another material.
ScoreWithMaterial(inputs, material) ==
  confidenceScore([ inputs EXCEPT !.material = material ])

\* C12: for material EVOH the confidence score includes the 10-point EVOH
\* deduction (it is 10 below the score of the same request on any other
\* material, and at most 90) and the notes of the result contain 'EVOH
\* requires careful moisture control'; for the other three materials the
\* score carries no material deduction (it is the same for all three, and
\* 100 when no other deduction applies) and the notes lack that string.
C12_EvohConfidenceDeduction ==
  lastKind = "optimize" =>
    LET score == confidenceScore(lastInputs)
        noted ==
          \E i \in 1 .. Len(lastResult.notes) : lastResult.notes[i] = EvohMoistureReason
        plain ==
          /\ lastInputs.productionRate >= 50 /\ lastInputs.productionRate <= 500
          /\ lastInputs.targetGauge >= 50 /\ lastInputs.targetGauge <= 1000
          /\ lastInputs.targetOD >= 5 /\ lastInputs.targetOD <= 60
    IN  /\ \A m \in MaterialTypes \ { "EVOH" } :
             ScoreWithMaterial(lastInputs, "EVOH") = ScoreWithMaterial(lastInputs, m) - 10
        /\ lastInputs.material = "EVOH" => (score <= 90 /\ noted /\ (plain => score = 90))
        /\ lastInputs.material # "EVOH" => (~noted /\ (plain => score = 100))

\* C12's case: scenario B, an EVOH request with no other deduction: score
\* 90, confidence high, the moisture-control reason last in the notes.
C12_Witness ==
  /\ lastKind = "optimize"
  /\ lastInputs.material = "EVOH"
  /\ confidenceScore(lastInputs) = 90
  /\ lastResult.confidence = "high"
  /\ lastResult.notes[Len(lastResult.notes)] = EvohMoistureReason

\* The request with its production rate replaced by 500 lb/hr.
RequestAtRate500(inputs) == [ inputs EXCEPT !.productionRate = 500 ]

\* C13: confidence is monotone in high production rates: with material,
\* targetOD and targetGauge fixed, for every productionRate > 500 the
\* confidence score is at most the score at productionRate = 500, and the
\* confidence level of the result (high > medium > low) is never better than
\* the level of the result at 500.
C13_ConfidenceMonotoneAbove500 ==
  (lastKind = "optimize" /\ lastInputs.productionRate > 500) =>
    LET at500 == RequestAtRate500(lastInputs)
    IN  /\ confidenceScore(lastInputs) <= confidenceScore(at500)
        /\ TierRank(lastResult.confidence)
             <= TierRank(optimizeParameters(MaterialsAtStartup, at500).result.confidence)

\* C13's case: a request above 500 lb/hr whose level is low where the same
\* request at 500 lb/hr gets medium (the 15 points cross the 60 threshold).
C13_Witness ==
  /\ lastKind = "optimize"
  /\ lastInputs.productionRate > 500
  /\ lastResult.confidence = "low"
  /\ confidenceScore(RequestAtRate500(lastInputs)) - confidenceScore(lastInputs) = 15
  /\ assessConfidence(RequestAtRate500(lastInputs)).level = "medium"

\* C14: an identity outside the fixed enumeration fails fast: getMaterial,
\* getDefectInfo and getDefectDisplayName, given a material or defect code
\* that is not in the table, raise an error instead of returning a default,
\* empty or undefined value.
C14_UnknownCodeFailsFast ==
  /\ (lastKind = "getMaterial" /\ lastInputs.code \notin MaterialTypes)
       => lastResult.outcome = "throw"
  /\ (lastKind \in { "getDefectInfo", "getDefectDisplayName" }
        /\ lastInputs.code \notin DefectTypes)
       => lastResult.outcome = "throw"

\* C15: for every material and positive productionRate the melt pressure of
\* the result has min and max equal to the material's meltPressureRange
\* bounds and min <= target <= max; at productionRate = 200 the target is the
\* midpoint of the range; and the target is non-decreasing in productionRate
\* (no higher rate of the sweep gets a lower target).
C15_MeltPressureTarget ==
  lastKind = "optimize" =>
    LET range == MaterialsAtStartup[lastInputs.material].meltPressureRange
        meltPressure == lastResult.meltPressure
    IN  /\ meltPressure.min = range.min
        /\ meltPressure.max = range.max
        /\ meltPressure.min <= meltPressure.target
        /\ meltPressure.target <= meltPressure.max
        /\ lastInputs.productionRate = 200
             => 2 * meltPressure.target = range.min + range.max
        /\ \A rate \in Rates :
             rate >= lastInputs.productionRate
               => calculateMeltPressure(MaterialsAtStartup, rate, lastInputs.material).target
                    >= meltPressure.target

\* C15's case: LDPE at 300 lb/hr: 3250 * sqrt(1.5) = 3980.4, rounded to
\* 3980, strictly inside the range 2000 .. 4500 and above the midpoint.
C15_Witness ==
  /\ lastKind = "optimize"
  /\ lastInputs.material = "LDPE"
  /\ lastInputs.productionRate = 300
  /\ lastResult.meltPressure = [ min |-> 2000, max |-> 4500, target |-> 3980 ]

BarrelZones == { "feed", "compression", "metering", "die" }

\* C16: every MaterialProfile of the material table (HDPE, LDPE, LLDPE,
\* EVOH) has min <= recommended <= max in each of the four barrel zones, and
\* its recommended values are non-decreasing in the order feed, compression,
\* metering, die.
C16_BarrelZonesOrdered ==
  \A m \in MaterialTypes :
    LET zones == MATERIALS[m].barrelTemperatures
    IN  /\ \A z \in BarrelZones :
             /\ zones[z].min <= zones[z].recommended
             /\ zones[z].recommended <= zones[z].max
        /\ zones.feed.recommended <= zones.compression.recommended
        /\ zones.compression.recommended <= zones.metering.recommended
        /\ zones.metering.recommended <= zones.die.recommended

\* C16's case: the table after the engine has used it: an optimize call above
\* 300 lb/hr has returned offset temperatures (die above the table's
\* recommended value) and a diagnose call has read the die-zone limits.
C16_Witness ==
  /\ lastKind = "optimize"
  /\ diagnoseCalls = MaxDiagnoseCalls
  /\ lastResult.barrelTemps.die
       > MATERIALS[lastInputs.material].barrelTemperatures.die.recommended
  /\ lastResult.barrelTemps.die
       <= MATERIALS[lastInputs.material].barrelTemperatures.die.max

\* C17: in every diagnosis result the causes are ordered by final
\* probability tier, the tier after escalation: no cause of tier medium
\* precedes a cause of tier high, and no cause of tier low precedes a cause
\* of tier high or medium.
C17_CausesOrderedByFinalTier ==
  lastKind = "diagnose" =>
    \A i \in 1 .. Len(lastResult.causes) :
      \A j \in 1 .. Len(lastResult.causes) :
        i < j => TierRank(lastResult.causes[i].probability)
                   >= TierRank(lastResult.causes[j].probability)

\* C17's case: a cause the table lists as medium is returned as high, ahead
\* of a medium cause that stands before it in the table.
C17_Witness ==
  /\ lastKind = "diagnose"
  /\ \E i \in 1 .. Len(lastResult.causes) :
       \E j \in 1 .. Len(lastResult.causes) :
         /\ i < j
         /\ TableCause(lastInputs.defect, lastResult.causes[i]).probability = "medium"
         /\ lastResult.causes[i].probability = "high"
         /\ lastResult.causes[j].probability = "medium"
         /\ TablePosition(lastInputs.defect, lastResult.causes[j].cause)
              < TablePosition(lastInputs.defect, lastResult.causes[i].cause)

\* The cause's label contains "output", "rate" or "speed".
ScrewSpeedLabel(cause) ==
  \/ labelIncludes(cause, "output")
  \/ labelIncludes(cause, "rate")
  \/ labelIncludes(cause, "speed")

\* The string ends with the given suffix.
EndsWith(s, suffix) ==
  /\ Len(s) >= Len(suffix)
  /\ SubSeq(s, Len(s) - Len(suffix) + 1, Len(s)) = suffix

\* C18: the screw-speed flag is true exactly when currentSettings.screwSpeed
\* is strictly greater than 0.9 times the material's screwSpeedRange.max (on
\* the table as loaded, a cause labelled "output", "rate" or "speed" gets the
\* screw-speed annotation exactly then); and whenever it is true, every such
\* cause of the diagnosed defect is returned with probability "high" and the
\* screw-speed annotation appended to (at the end of) its explanation.
C18_ScrewSpeedEscalation ==
  lastKind = "diagnose" =>
    LET high == RequestScrewSpeedHigh(lastInputs)
        fresh ==
          analyzeCauses(DefectDatabaseAtStartup, MaterialsAtStartup, lastInputs).causes
    IN  /\ screwSpeedHigh(MATERIALS[lastInputs.material],
                          lastInputs.currentSettings.screwSpeed) <=> high
        /\ \A i \in 1 .. Len(fresh) :
             ScrewSpeedLabel(fresh[i])
               => (includes(fresh[i].explanation, ScrewSpeedNote) <=> high)
        /\ high =>
             \A i \in 1 .. Len(lastResult.causes) :
               ScrewSpeedLabel(lastResult.causes[i])
                 => /\ lastResult.causes[i].probability = "high"
                    /\ EndsWith(lastResult.causes[i].explanation, ScrewSpeedNote)

\* C18's case: a "speed" cause the table lists as medium, returned as high
\* with the annotation at the end of its explanation, on a request whose
\* screw speed is above 90% of the maximum.
C18_Witness ==
  /\ lastKind = "diagnose"
  /\ RequestScrewSpeedHigh(lastInputs)
  /\ \E i \in 1 .. Len(lastResult.causes) :
       /\ labelIncludes(lastResult.causes[i], "speed")
       /\ TableCause(lastInputs.defect, lastResult.causes[i]).probability = "medium"
       /\ lastResult.causes[i].probability = "high"
       /\ EndsWith(lastResult.causes[i].explanation, ScrewSpeedNote)

\* C19: the high-temperature rule mirrors the low one: a cause whose label
\* contains "temperature"/"temp" and "high", on a request whose meltTemp is
\* strictly above the material's meltTempRange.max or whose dieTemp is
\* strictly above the die-zone max, is returned with probability "high" and
\* the high-temperature annotation; a temperature label with neither "low"
\* nor "high" in it (e.g. "Die temperature variation") is escalated by no
\* temperature flag: it carries neither temperature annotation and, no
\* other rule matching it, keeps its table tier.
C19_HighTemperatureEscalation ==
  lastKind = "diagnose" =>
    \A i \in 1 .. Len(lastResult.causes) :
      LET c == lastResult.causes[i]
      IN  /\ (/\ TemperatureLabel(c)
               /\ labelIncludes(c, "high")
               /\ RequestTemperatureHigh(lastInputs))
                => /\ c.probability = "high"
                   /\ includes(c.explanation, HighTemperatureNote)
          /\ (/\ TemperatureLabel(c)
               /\ ~labelIncludes(c, "low")
               /\ ~labelIncludes(c, "high"))
                => /\ ~includes(c.explanation, LowTemperatureNote)
                   /\ ~includes(c.explanation, HighTemperatureNote)
                   /\ (~ScrewSpeedLabel(c) /\ ~labelIncludes(c, "moisture"))
                        => c.probability
                             = TableCause(lastInputs.defect, c).probability

\* C19's case: "Melt temperature too high" of voids_bubbles, medium in the
\* table, returned as high with the annotation on a request where only the
\* melt temperature is above its maximum (dieTemp is within the die zone).
C19_Witness ==
  /\ lastKind = "diagnose"
  /\ lastInputs.defect = "voids_bubbles"
  /\ lastInputs.currentSettings.dieTemp
       <= MaterialsAtStartup[lastInputs.material].barrelTemperatures.die.max
  /\ RequestTemperatureHigh(lastInputs)
  /\ \E i \in 1 .. Len(lastResult.causes) :
       /\ lastResult.causes[i].cause = "Melt temperature too high"
       /\ TableCause(lastInputs.defect, lastResult.causes[i]).probability = "medium"
       /\ lastResult.causes[i].probability = "high"
       /\ includes(lastResult.causes[i].explanation, HighTemperatureNote)

\* round(productionRate / 5), for a whole productionRate.
RoundedBaseRPM(productionRate) == (2 * productionRate + 5) \div 10

\* C20: for every material and productionRate, screwSpeed.recommended equals
\* round(productionRate / 5) clamped into the material's screwSpeedRange, and
\* so lies within [screwSpeedRange.min, screwSpeedRange.max] of the material.
C20_RecommendedScrewSpeedClamped ==
  lastKind = "optimize" =>
    LET range == MaterialsAtStartup[lastInputs.material].screwSpeedRange
        base == RoundedBaseRPM(lastInputs.productionRate)
        recommended == lastResult.screwSpeed.recommended
    IN  /\ (range.min <= base /\ base <= range.max) => recommended = base
        /\ base < range.min => recommended = range.min
        /\ base > range.max => recommended = range.max
        /\ range.min <= recommended
        /\ recommended <= range.max

\* C20's case: LDPE at 251 lb/hr: 251 / 5 = 50.2, rounded to 50, inside the
\* range 40 .. 150 and returned as it is.
C20_Witness ==
  /\ lastKind = "optimize"
  /\ lastInputs.material = "LDPE"
  /\ lastInputs.productionRate = 251
  /\ lastResult.screwSpeed.recommended = 50

\* The die of section "Die size selection": 4, 6, 8, 10, 12 inches with
\* inclusive upper thresholds 10, 20, 35, 50.
DieSizeStep(targetOD) ==
  CASE targetOD <= 10 -> 4
    [] 10 < targetOD /\ targetOD <= 20 -> 6
    [] 20 < targetOD /\ targetOD <= 35 -> 8
    [] 35 < targetOD /\ targetOD <= 50 -> 10
    [] targetOD > 50 -> 12

\* The gauge-control recommendation that names the die.
DieGapRecommendation(dieSize) ==
  "Verify die gap uniformity (target ±0.001\" on " \o ToString(dieSize) \o "\" die)"

\* C21: the die size is a total, non-decreasing step function of targetOD
\* with inclusive upper thresholds (OD <= 10 gives 4, <= 20 gives 6, <= 35
\* gives 8, <= 50 gives 10, above 50 gives 12), and one optimize call uses
\* that same die in its blow-up ratio, its frost line heights and its
\* gauge-control recommendation.
C21_DieSizeStepFunction ==
  lastKind = "optimize" =>
    LET od == lastInputs.targetOD
        die == DieSizeStep(od)
        props == MaterialsAtStartup[lastInputs.material]
        rateAdjustment ==
          IF lastInputs.productionRate > 300 THEN 11
          ELSE IF lastInputs.productionRate < 100 THEN 9
          ELSE 10
    IN  /\ getDieSize(od) = die
        /\ \A larger \in 1 .. MaxOD : larger >= od => getDieSize(larger) >= die
        /\ lastResult.blowUpRatio
             = MathMax(12 * props.blowUpRatioRange.min,
                       MathMin((od * 120) \div die, 12 * props.blowUpRatioRange.max))
        /\ lastResult.frostLine.heightInches
             = [ min |-> roundOf200ths(die * 6 * props.frostLineHeightFactor * rateAdjustment),
                 max |-> roundOf200ths(die * 12 * props.frostLineHeightFactor * rateAdjustment) ]
        /\ lastResult.gaugeControl.recommendations[3] = DieGapRecommendation(die)

\* C21's case: targetOD 35, on the inclusive threshold of the 8 inch die:
\* the gauge-control text names the 8" die and the blow-up ratio of HDPE is
\* 35 / 8 clamped to the material's maximum 4.0.
C21_Witness ==
  /\ lastKind = "optimize"
  /\ lastInputs.targetOD = 35
  /\ lastInputs.material = "HDPE"
  /\ lastResult.gaugeControl.recommendations[3] = DieGapRecommendation(8)
  /\ lastResult.blowUpRatio = 480

\* C22: ibc.recommended is true exactly when productionRate * targetOD > 4000
\* or (targetGauge > 3 and productionRate > 250), every comparison strict;
\* when it is false, airFlow and notes are the fixed 'not required' messages
\* whatever the material; when it is true and the material is EVOH, the notes
\* mention consistent barrier properties.
C22_IbcRecommendation ==
  lastKind = "optimize" =>
    LET ibc == lastResult.ibc
        expected ==
          \/ lastInputs.productionRate * lastInputs.targetOD > 4000
          \/ (lastInputs.targetGauge > 300 /\ lastInputs.productionRate > 250)
    IN  /\ ibc.recommended <=> expected
        /\ ~ibc.recommended =>
             /\ ibc.airFlow = "Not required for this application"
             /\ ibc.notes = "External air ring cooling sufficient for current parameters"
        /\ (ibc.recommended /\ lastInputs.material = "EVOH")
             => includes(ibc.notes, "consistent barrier properties")

\* C22's case: EVOH with IBC recommended through the heavy-gauge clause alone
\* (cooling load not above 4000), the notes mentioning barrier properties.
C22_Witness ==
  /\ lastKind = "optimize"
  /\ lastInputs.material = "EVOH"
  /\ lastInputs.productionRate * lastInputs.targetOD <= 4000
  /\ lastInputs.targetGauge > 300
  /\ lastResult.ibc.recommended
  /\ includes(lastResult.ibc.notes, "consistent barrier properties")

\* C23: the bubble stability rating is a function of a score that starts at
\* 100 and loses 20 if BUR > 3.5, else 10 if BUR < 2.0; 25 if gauge < 0.75,
\* else 10 if gauge < 1.5; 15 if productionRate > 400; 5 for LLDPE, 10 for
\* HDPE, 15 for EVOH, 0 for LDPE; 10 if targetOD > 40.  The rating is
\* stable iff score >= 75, moderate iff 50 <= score < 75, challenging iff
\* score < 50, and the BUR is the clamped blow-up ratio of the same result.
C23_BubbleStabilityRating ==
  lastKind = "optimize" =>
    LET bur == lastResult.blowUpRatio
        score == stabilityScore(lastInputs, bur)
        rating == lastResult.bubbleStability.rating
        burLoss == IF bur > 420 THEN 20 ELSE IF bur < 240 THEN 10 ELSE 0
        gaugeLoss ==
          IF lastInputs.targetGauge < 75 THEN 25
          ELSE IF lastInputs.targetGauge < 150 THEN 10
          ELSE 0
        rateLoss == IF lastInputs.productionRate > 400 THEN 15 ELSE 0
        materialLoss ==
          CASE lastInputs.material = "LLDPE" -> 5
            [] lastInputs.material = "HDPE" -> 10
            [] lastInputs.material = "EVOH" -> 15
            [] lastInputs.material = "LDPE" -> 0
        diameterLoss == IF lastInputs.targetOD > 40 THEN 10 ELSE 0
    IN  /\ score = 100 - burLoss - gaugeLoss - rateLoss - materialLoss - diameterLoss
        /\ rating = "stable" <=> score >= 75
        /\ rating = "moderate" <=> (50 <= score /\ score < 75)
        /\ rating = "challenging" <=> score < 50

\* C23's case: a result rated moderate on the score 50 itself (the lower
\* threshold is inclusive), three deductions having been applied.
C23_Witness ==
  /\ lastKind = "optimize"
  /\ stabilityScore(lastInputs, lastResult.blowUpRatio) = 50
  /\ Len(lastResult.bubbleStability.factors) = 3
  /\ lastResult.bubbleStability.rating = "moderate"

\* The reason strings of assessConfidence in evaluation order (production
\* rate, gauge, OD, material), each with its deduction.
ConfidenceReasons ==
  << [ reason |-> "Low production rate may require special considerations", points |-> 20 ],
     [ reason |-> "High production rate - verify equipment capacity", points |-> 15 ],
     [ reason |-> "Very thin gauge - process stability may be challenging", points |-> 25 ],
     [ reason |-> "Heavy gauge - monitor cooling capacity", points |-> 15 ],
     [ reason |-> "Small diameter - BUR may be limited", points |-> 10 ],
     [ reason |-> "Large diameter - ensure adequate die size", points |-> 10 ],
     [ reason |-> EvohMoistureReason, points |-> 10 ] >>

\* The string is an element of the list.
ListHas(list, string) == \E i \in 1 .. Len(list) : list[i] = string

\* The points of the k-th reason if the list holds its string, else 0.
PointsIfNoted(list, k) ==
  IF ListHas(list, ConfidenceReasons[k].reason) THEN ConfidenceReasons[k].points ELSE 0

\* C24: the notes of every optimize result are, in order, the layflat note as
\* first element, then the material's notes in table order, then the
\* confidence reason strings in evaluation order (production rate, gauge,
\* OD, material); a reason string is in the notes exactly when its
\* deduction was applied to the confidence score.
C24_NotesOrder ==
  lastKind = "optimize" =>
    LET notes == lastResult.notes
        own == MaterialsAtStartup[lastInputs.material].notes
        reasons == SubSeq(notes, Len(own) + 2, Len(notes))
    IN  /\ Len(notes) >= Len(own) + 1
        /\ notes[1] = layflatNote(lastInputs.targetOD)
        /\ SubSeq(notes, 2, Len(own) + 1) = own
        /\ reasons
             = SelectSeq([ k \in 1 .. Len(ConfidenceReasons) |-> ConfidenceReasons[k].reason ],
                         LAMBDA r : ListHas(reasons, r))
        /\ \A i \in 1 .. Len(reasons) : \A j \in 1 .. Len(reasons) :
             i # j => reasons[i] # reasons[j]
        /\ ListHas(notes, ConfidenceReasons[1].reason) <=> lastInputs.productionRate < 50
        /\ ListHas(notes, ConfidenceReasons[2].reason) <=> lastInputs.productionRate > 500
        /\ ListHas(notes, ConfidenceReasons[3].reason) <=> lastInputs.targetGauge < 50
        /\ ListHas(notes, ConfidenceReasons[4].reason) <=> lastInputs.targetGauge > 1000
        /\ ListHas(notes, ConfidenceReasons[5].reason) <=> lastInputs.targetOD < 5
        /\ ListHas(notes, ConfidenceReasons[6].reason) <=> lastInputs.targetOD > 60
        /\ ListHas(notes, ConfidenceReasons[7].reason) <=> lastInputs.material = "EVOH"
        /\ confidenceScore(lastInputs)
             = 100 - PointsIfNoted(notes, 1) - PointsIfNoted(notes, 2)
                   - PointsIfNoted(notes, 3) - PointsIfNoted(notes, 4)
                   - PointsIfNoted(notes, 5) - PointsIfNoted(notes, 6)
                   - PointsIfNoted(notes, 7)

\* C24's case: an EVOH request above 500 lb/hr, thinner than 0.5 mil and
\* wider than 60 in: four reasons behind the material's notes, in evaluation
\* order, the layflat note in front.
C24_Witness ==
  /\ lastKind = "optimize"
  /\ lastInputs.material = "EVOH"
  /\ lastResult.notes[1] = layflatNote(lastInputs.targetOD)
  /\ SubSeq(lastResult.notes, Len(lastResult.notes) - 3, Len(lastResult.notes))
       = << ConfidenceReasons[2].reason, ConfidenceReasons[3].reason,
            ConfidenceReasons[6].reason, ConfidenceReasons[7].reason >>

\* C25: escalation only raises: in every diagnosis result, after any
\* sequence of calls, each cause's probability tier is at least as high
\* (high > medium > low) as that cause's tier in the startup defect table.
C25_EscalationOnlyRaises ==
  lastKind = "diagnose" =>
    \A i \in 1 .. Len(lastResult.causes) :
      TierRank(lastResult.causes[i].probability)
        >= TierRank(TableCause(lastInputs.defect, lastResult.causes[i]).probability)

\* C25's case: a second diagnosis that returns a cause above its table tier
\* next to a cause still at a tier below high.
C25_Witness ==
  /\ lastKind = "diagnose"
  /\ diagnoseCalls = 2
  /\ \E i \in 1 .. Len(lastResult.causes) :
       TierRank(lastResult.causes[i].probability)
         > TierRank(TableCause(lastInputs.defect, lastResult.causes[i]).probability)
  /\ \E i \in 1 .. Len(lastResult.causes) :
       /\ lastResult.causes[i].probability # "high"
       /\ lastResult.causes[i].probability
            = TableCause(lastInputs.defect, lastResult.causes[i]).probability

\* How many elements of the cause list carry the label.
LabelCount(causes, label) == Cardinality({ i \in 1 .. Len(causes) : causes[i].cause = label })

\* C26: re-ranking neither drops nor adds causes: the multiset of cause
\* labels of the diagnosis result equals the multiset of cause labels of the
\* defect's table entry, each cause with its adjustments list unchanged, and
\* the result's defect, defectName and description are the request's defect
\* and that defect's table name and description.
C26_CausesPreserved ==
  lastKind = "diagnose" =>
    LET entry == DefectDatabaseAtStartup[lastInputs.defect]
        causes == lastResult.causes
    IN  /\ Len(causes) = Len(entry.causes)
        /\ \A label \in CauseLabels :
             LabelCount(causes, label) = LabelCount(entry.causes, label)
        /\ \A i \in 1 .. Len(causes) :
             \E k \in 1 .. Len(entry.causes) :
               /\ entry.causes[k].cause = causes[i].cause
               /\ entry.causes[k].adjustments = causes[i].adjustments
        /\ lastResult.defect = lastInputs.defect
        /\ lastResult.defectName = entry.name
        /\ lastResult.description = entry.description

\* C26's case: a result whose last cause is not the table's last cause (the
\* re-ranking moved causes), with as many causes as the table entry.
C26_Witness ==
  /\ lastKind = "diagnose"
  /\ Len(lastResult.causes) = Len(TableCauses(lastInputs.defect))
  /\ lastResult.causes[Len(lastResult.causes)].cause
       # TableCauses(lastInputs.defect)[Len(lastResult.causes)].cause
  /\ Len(lastResult.causes) > 3
  /\ lastResult.defectName = DefectDatabaseAtStartup[lastInputs.defect].name

\* C27: for every material and productionRate, each barrel temperature of
\* the optimize result (the +10 offset above 300 lb/hr included) lies within
\* that zone's [min, max] window of the material, and the four temperatures
\* are non-decreasing in the order feed, compression, metering, die.
C27_BarrelTemperaturesInWindow ==
  lastKind = "optimize" =>
    LET zones == MaterialsAtStartup[lastInputs.material].barrelTemperatures
        temps == lastResult.barrelTemps
    IN  /\ \A z \in BarrelZones :
             /\ zones[z].min <= temps[z]
             /\ temps[z] <= zones[z].max
        /\ temps.feed <= temps.compression
        /\ temps.compression <= temps.metering
        /\ temps.metering <= temps.die

\* C27's case: EVOH above 300 lb/hr, the tightest window: compression
\* 380 + 10 = 390 of at most 400, die 415 + 10 = 425 of at most 440.
C27_Witness ==
  /\ lastKind = "optimize"
  /\ lastInputs.material = "EVOH"
  /\ lastInputs.productionRate > 300
  /\ lastResult.barrelTemps.compression = 390
  /\ lastResult.barrelTemps.die = 425

HighBurFactor == "High BUR increases bubble sensitivity"

LowBurFactor == "Low BUR may cause MD/TD imbalance"

\* The points the stability score loses to the blow-up ratio: the score at a
\* ratio of 3.0, which costs nothing, less the score at the given ratio.
BurDeduction(inputs, bur) == stabilityScore(inputs, 360) - stabilityScore(inputs, bur)

\* C28: the BUR handed to the stability assessment is already clamped to the
\* material's range, so for LDPE and EVOH the factor 'High BUR increases
\* bubble sensitivity' and its 20-point deduction never occur, and for HDPE
\* and LLDPE the factor 'Low BUR may cause MD/TD imbalance' and its
\* 10-point deduction never occur, whatever the targetOD.
C28_ClampedBurFactors ==
  lastKind = "optimize" =>
    LET factors == lastResult.bubbleStability.factors
        deduction == BurDeduction(lastInputs, lastResult.blowUpRatio)
    IN  /\ lastInputs.material \in { "LDPE", "EVOH" }
             => (~ListHas(factors, HighBurFactor) /\ deduction # 20)
        /\ lastInputs.material \in { "HDPE", "LLDPE" }
             => (~ListHas(factors, LowBurFactor) /\ deduction # 10)

\* C28's case: LDPE at a targetOD whose quotient targetOD / dieSize is above
\* 3.5: the ratio is clamped to 3.5 and the assessment names no BUR factor.
C28_Witness ==
  /\ lastKind = "optimize"
  /\ lastInputs.material = "LDPE"
  /\ QuotientBUR(lastInputs.targetOD) > 420
  /\ lastResult.blowUpRatio = 420
  /\ ~ListHas(lastResult.bubbleStability.factors, HighBurFactor)
  /\ BurDeduction(lastInputs, lastResult.blowUpRatio) = 0

\* C29: the air-ring and IBC sections of one optimize result agree: whenever
\* airRing.coolingCapacity is 'Dual-lip with IBC recommended' (productionRate
\* * targetOD >= 5000), ibc.recommended is true; equivalently, whenever
\* ibc.recommended is false the cooling capacity is 'Standard single-lip' or
\* 'Dual-lip recommended'.
C29_AirRingAgreesWithIbc ==
  lastKind = "optimize" =>
    LET capacity == lastResult.airRing.coolingCapacity
    IN  /\ capacity = "Dual-lip with IBC recommended"
             <=> lastInputs.productionRate * lastInputs.targetOD >= 5000
        /\ capacity = "Dual-lip with IBC recommended" => lastResult.ibc.recommended
        /\ ~lastResult.ibc.recommended
             => capacity \in { "Standard single-lip", "Dual-lip recommended" }

\* C29's case: a cooling load of exactly 5000 on a gauge that is not heavy:
\* the air ring names IBC and the IBC section recommends it.
C29_Witness ==
  /\ lastKind = "optimize"
  /\ lastInputs.productionRate * lastInputs.targetOD = 5000
  /\ lastInputs.targetGauge <= 300
  /\ lastResult.airRing.coolingCapacity = "Dual-lip with IBC recommended"
  /\ lastResult.ibc.recommended

(***************************************************************************)
(* C30: in the OptimizeMode and DiagnoseMode forms every change of an      *)
(* input resets the stored results to null and only a submit stores a      *)
(* result, so that a result that is displayed is always the value the      *)
(* engine returned for exactly the inputs the form holds now.              *)
(***************************************************************************)
ResultsFromCurrentInputs ==
  results # NoResult =>
    /\ lastKind = mode
    /\ lastInputs = formInputs
    /\ lastResult = results

EngineResult ==
  IF mode = "optimize"
    THEN optimizeParameters(MATERIALS, formInputs).result
    ELSE diagnoseDefect(DEFECT_DATABASE, MATERIALS, formInputs).result

ChangeResetsSubmitSets ==
  /\ formInputs' # formInputs => results' = NoResult
  /\ (results' # NoResult /\ results' # results) =>
       /\ formInputs' = formInputs
       /\ mode' = mode
       /\ results' = EngineResult

C30_ResultsFromCurrentInputs ==
  [] ResultsFromCurrentInputs /\ [][ChangeResetsSubmitSets]_vars

\* C30's case: the diagnose form shows a result for inputs that were changed
\* by every kind of handler since the form was mounted, after an earlier
\* result had been dropped by a change.
C30_Witness ==
  /\ mode = "diagnose"
  /\ results # NoResult
  /\ diagnoseCalls = 2
  /\ formInputs.material = "EVOH"
  /\ formInputs.defect = "voids_bubbles"
  /\ formInputs.currentSettings.screwSpeed = 120
  /\ formInputs.currentSettings.meltTemp = 410
  /\ results.defect = "voids_bubbles"

====
